---- MODULE Spec2Model ----
(***************************************************************************)
(* shellcaster: the shared store (LockVec), the windowed Menu, and the UI  *)
(* loop.  Indexes are 0-based as in the Rust source; Get translates to     *)
(* TLA+'s 1-based sequences.  A panic (unwrap on None) is recorded in a    *)
(* fault flag and stops the thread that raised it.                         *)
(***************************************************************************)
EXTENDS Integers, Sequences, FiniteSets, TLC

\* ------------------------------------------------------------- bounds
MaxLen == 4
MaxRows == 5
MaxFeeds == 2
MaxDirectives == 3
MaxIntents == 2
MaxInput == 1
MaxStr == 3
MaxTitle == 64
MaxWidth == 62
MaxTyped == 3

\* ---------------------------------------------------------- variables
VARIABLES
    heap,       \* ref -> Vec<T>: the collection behind each Arc<Mutex<Vec<T>>>
    holders,    \* ref -> set of threads inside that mutex's guard scope
    items,      \* Menu.items: the menu's store handle
    header,     \* Menu.header: TRUE when the menu has a header
    start_row,  \* Menu.start_row
    top_row,    \* Menu.top_row
    selected,   \* Menu.selected
    n_row,      \* panel.get_rows()
    fault,      \* TRUE once the menu's thread has panicked
    pc,         \* thread -> the store operation it is inside ("idle": none)
    local,      \* thread -> the arguments of that operation
    ret,        \* thread -> its last operation and whether it returned Ok / Some
    handle,     \* thread -> its handle to the feed store
    got,        \* thread -> the clone its caller kept from clone_podcast
    store0,     \* the feed store as constructed (history)
    flipped,    \* position -> an odd number of replaces succeeded there (history)
    toggled,    \* position -> an odd number of selection changes there (history)
    lastWrite,  \* the last completed replace on the feed store (history)
    surface,    \* the rendering-surface call the UI thread is executing
    rx_from_main, \* the controller -> UI channel
    tx_to_main, \* the UI -> controller channel
    message,    \* the UiMsg getch returned in this loop iteration
    inputs,     \* spawn_input_win: characters typed so far
    taken,      \* directives removed from the channel in this iteration
    torn_down,  \* number of tear_down calls
    sent,       \* directives in the order the controller sent them (history)
    processed,  \* directives in the order the loop processed them (history)
    produced,   \* intents in the order getch returned them (history)
    received,   \* intents in the order the controller received them (history)
    poisoned,   \* ref -> a thread panicked inside that mutex's guard scope
    msg_wins,   \* message-window threads: spawned, and showing their window
    other_painters, \* threads other than the UI thread that made a terminal call
    panel,      \* the menu's panel: row -> the text on it, its attribute and palette
    last_op,    \* the last Menu operation, and the cursor and length it found
    ui,         \* the UI struct of ui.rs: its two menus, their windows, active_menu
    input_win   \* spawn_input_win: its buffer, its line on screen, its cursors

menuVars == <<items, header, start_row, top_row, selected, n_row, fault>>
storeVars == <<heap, holders>>
threadVars == <<pc, local, ret, handle, got>>
histVars == <<store0, flipped, toggled, lastWrite>>
envVars == <<poisoned, msg_wins, other_painters, ui, input_win>>
uiVars == <<surface, rx_from_main, tx_to_main, message, inputs, taken,
            torn_down, sent, processed, produced, received>>
vars == <<heap, holders, items, header, start_row, top_row, selected, n_row,
          fault, pc, local, ret, handle, got, store0, flipped, toggled, lastWrite,
          surface, rx_from_main, tx_to_main, message, inputs, taken,
          torn_down, sent, processed, produced, received,
          poisoned, msg_wins, other_painters, panel, last_op, ui, input_win>>

\* What the single-threaded menu operations leave alone.
outsideMenu == <<storeVars, threadVars, histVars, uiVars, envVars>>

\* ------------------------------------------------------------ helpers
None == [none |-> TRUE]
Some(x) == [some |-> x]

min(a, b) == IF a < b THEN a ELSE b

\* An entity of a store: a Podcast (episodes = ref of its sub-store) or an
\* Episode (episodes = 0).
Entity(id, played, sel, eps) ==
    [id |-> id, played |-> played, selected |-> sel, episodes |-> eps]

\* Vec::get(index): the element, or None when index is out of range; a
\* negative i32 cast to usize is far out of range.
Get(vec, index) ==
    IF index >= 0 /\ index < Len(vec) THEN vec[index + 1] ELSE None

\* Menuable::is_played
is_played(el) == el.played

\* LockVec::new
LockVec_new(ref) == [data |-> ref]

\* The heap: the feed store, one episode sub-store per feed, and one more
\* cell.
FeedRef == 1
EpRef(i) == i + 2
CopyRef == MaxFeeds + 2
Refs == 1..(MaxFeeds + 2)

\* clone as a copy of the collection in a cell of its own
LockVec_clone_copies(h) == [data |-> CopyRef]

\* LockVec::clone: a second handle to the same collection.
LockVec_clone(h) == [data |-> h.data]

\* The collection a handle refers to.
Data(h) == heap[h.data]

\* LockVec::len of the menu's store
len(h) == Len(Data(h))

\* LockVec::map_single_by_index(index, f): f of the entity, or None
map_single_by_index(h, index) == Get(Data(h), index)

Threads == {"ui", "worker"}

NoLocal == [h |-> LockVec_new(0), index |-> 0, ent |-> None, ep_index |-> 0,
            indexes |-> <<>>, selection |-> None, len |-> 0]
NoRet == [op |-> "none", ok |-> FALSE]

\* No thread is inside a store operation (the single-threaded specifications).
ThreadsAtRest ==
    /\ pc = [t \in Threads |-> "idle"]
    /\ local = [t \in Threads |-> NoLocal]
    /\ ret = [t \in Threads |-> NoRet]
    /\ handle = [t \in Threads |-> LockVec_new(FeedRef)]
    /\ got = [t \in Threads |-> None]
    /\ store0 = <<>>
    /\ flipped = <<>>
    /\ toggled = <<>>
    /\ lastWrite = None

\* The UI loop has not started: empty channels, nothing on the surface.
UiAtRest ==
    /\ surface = "none"
    /\ rx_from_main = <<>>
    /\ tx_to_main = <<>>
    /\ message = "Noop"
    /\ inputs = 0
    /\ taken = 0
    /\ torn_down = 0
    /\ sent = <<>>
    /\ processed = <<>>
    /\ produced = <<>>
    /\ received = <<>>
    /\ poisoned = [r \in Refs |-> FALSE]
    /\ msg_wins = [spawned |-> 0, shown |-> 0]
    /\ ui = [built |-> FALSE]
    /\ input_win = [open |-> FALSE]
    /\ other_painters = {}
    /\ last_op = [op |-> "new", lines |-> 0, selected |-> 0, top_row |-> 0, len |-> 0]

\* ---------------------------------------------------------------- Menu
\* Row returned by Panel::write_wrap_line for a one-line header.
HeaderLastRow == 0

print_header == IF header THEN HeaderLastRow + 2 ELSE 0

get_menu_idx_of(top, screen_y, start) == top + screen_y - start

get_menu_idx(screen_y) == get_menu_idx_of(top_row, screen_y, start_row)

\* update_items whose clamp takes one row more at every call
update_items_selected_drifts(s) ==
    LET sel1 == IF selected < s THEN s ELSE selected
    IN  IF len(items) # 0 /\ sel1 > s THEN sel1 - 1 ELSE sel1

\* The value of `selected` that update_items leaves, given start row s.
update_items_selected(s) ==
    LET sel1 == IF selected < s THEN s ELSE selected
        list_len == len(items)
        current_selected == get_menu_idx_of(top_row, sel1, s)
    IN  IF list_len # 0 /\ current_selected >= list_len
        THEN sel1 - (current_selected - list_len) - 1
        ELSE sel1

update_items_body ==
    /\ ~fault
    /\ start_row' = print_header
    /\ selected' = update_items_selected(print_header)
    /\ UNCHANGED <<items, header, top_row, n_row, fault>>

\* Menuable::get_title at the panel's width: the text that stands for the
\* entity.
get_title(el) == [title |-> el.id]

\* Panel::delete_line(y): the rows below y move up by one and the last row
\* is blank.
delete_line(p, y) ==
    [r \in DOMAIN p |->
        IF r < y THEN p[r]
        ELSE IF r + 1 \in DOMAIN p THEN p[r + 1]
        ELSE [text |-> None, attr |-> "A_NORMAL", color |-> "Normal"]]

\* Panel::insert_line(y, title): the rows from y on move down by one, the
\* last row is lost, and row y shows the title.
insert_line(p, y, title) ==
    [r \in DOMAIN p |->
        IF r < y THEN p[r]
        ELSE IF r = y THEN [text |-> title, attr |-> "A_NORMAL", color |-> "Normal"]
        ELSE p[r - 1]]

\* Menu::set_attrs: bold for an unplayed entity, and the palette, on one row.
set_attrs(p, index, played, color) ==
    IF index \in DOMAIN p
    THEN [p EXCEPT ![index].attr = IF played THEN "A_NORMAL" ELSE "A_BOLD",
                   ![index].color = color]
    ELSE p

\* The panel update_items paints: erased, the header on the first row, and
\* from row start on one title per entity from top_row, bold when unplayed.
update_items_panel(start) ==
    [y \in 0..(n_row - 1) |->
        LET el == Get(Data(items), get_menu_idx_of(top_row, y, start))
        IN  IF header /\ y = 0
            THEN [text |-> [header |-> TRUE], attr |-> "A_NORMAL", color |-> "Normal"]
            ELSE IF y >= start /\ el # None
            THEN [text |-> get_title(el),
                  attr |-> IF is_played(el) THEN "A_NORMAL" ELSE "A_BOLD",
                  color |-> "Normal"]
            ELSE [text |-> None, attr |-> "A_NORMAL", color |-> "Normal"]]

update_items ==
    /\ update_items_body
    /\ panel' = update_items_panel(print_header)
    /\ last_op' = [op |-> "update_items", lines |-> 0, selected |-> selected,
                   top_row |-> top_row, len |-> len(items)]
    /\ UNCHANGED outsideMenu

\* scroll's clamp of the cursor row to the last item of a short list.
abs_bottom(list_len) == min(n_row, list_len + start_row - 1)

scroll_body(lines) ==
    /\ ~fault
    /\ IF len(items) = 0
       THEN UNCHANGED menuVars
       ELSE LET list_len == len(items)
                s1 == selected + lines
                s2 == IF s1 > abs_bottom(list_len) THEN abs_bottom(list_len) ELSE s1
                down == s2 > n_row - 1
                up == ~down /\ s2 < start_row
                s3 == IF down THEN n_row - 1 ELSE IF up THEN start_row ELSE s2
                shiftDown == down /\ map_single_by_index(items, top_row + n_row) # None
                shiftUp == up /\ map_single_by_index(items, top_row - 1) # None
                top == IF shiftDown THEN top_row + 1
                       ELSE IF shiftUp THEN top_row - 1 ELSE top_row
                old_selected == IF shiftDown THEN selected - 1
                                ELSE IF shiftUp THEN selected + 1 ELSE selected
                oldEl == map_single_by_index(items, get_menu_idx_of(top, old_selected, start_row))
                newEl == map_single_by_index(items, get_menu_idx_of(top, s3, start_row))
            IN  /\ selected' = s3
                /\ top_row' = top
                /\ fault' = (oldEl = None \/ newEl = None)
                /\ UNCHANGED <<items, header, start_row, n_row>>

\* The panel scroll leaves: the line deleted or inserted when the window
\* moved, then the two apply_color_type calls (the first unwrap that fails
\* ends the call).
scroll_panel(lines) ==
    IF len(items) = 0
    THEN panel
    ELSE LET moved ==
                 IF top_row' = top_row + 1
                 THEN [delete_line(delete_line(panel, start_row), n_row - 1)
                          EXCEPT ![n_row - 1].text =
                              get_title(map_single_by_index(items, top_row + n_row))]
                 ELSE IF top_row' = top_row - 1
                 THEN insert_line(panel, start_row,
                                  get_title(map_single_by_index(items, top_row - 1)))
                 ELSE panel
             old_selected == selected + top_row - top_row'
             oldEl == map_single_by_index(items, get_menu_idx_of(top_row', old_selected, start_row))
             newEl == map_single_by_index(items, get_menu_idx_of(top_row', selected', start_row))
         IN  IF oldEl = None THEN moved
             ELSE IF newEl = None
             THEN set_attrs(moved, old_selected, is_played(oldEl), "Normal")
             ELSE set_attrs(set_attrs(moved, old_selected, is_played(oldEl), "Normal"),
                            selected', is_played(newEl), "HighlightedActive")

scroll(lines) ==
    /\ scroll_body(lines)
    /\ panel' = scroll_panel(lines)
    /\ last_op' = [op |-> "scroll", lines |-> lines, selected |-> selected,
                   top_row |-> top_row, len |-> len(items), panel |-> panel]
    /\ UNCHANGED outsideMenu

\* resize that leaves the cursor where it was
resize_keeps_cursor(rows) ==
    /\ ~fault
    /\ n_row' = rows
    /\ panel' = [y \in 0..(rows - 1) |->
                    [text |-> None, attr |-> "A_NORMAL", color |-> "Normal"]]
    /\ last_op' = [op |-> "resize", lines |-> 0, selected |-> selected,
                   top_row |-> top_row, len |-> len(items)]
    /\ UNCHANGED <<items, header, start_row, top_row, selected, fault, outsideMenu>>

resize(rows) ==
    /\ ~fault
    /\ n_row' = rows
    /\ IF selected > rows - 1
       THEN /\ top_row' = top_row + selected - (rows - 1)
            /\ selected' = rows - 1
       ELSE UNCHANGED <<top_row, selected>>
    /\ panel' = [y \in 0..(rows - 1) |->
                    [text |-> None, attr |-> "A_NORMAL", color |-> "Normal"]]
    /\ last_op' = [op |-> "resize", lines |-> 0, selected |-> selected,
                   top_row |-> top_row, len |-> len(items)]
    /\ UNCHANGED <<items, header, start_row, fault, outsideMenu>>

\* The panel sizes a resize may give: at least one list row below the header.
PanelRows == {r \in 1..MaxRows : r > print_header}

\* The store the tests build: entity i has id i and is played iff i is even.
TestItems(n) == [i \in 1..n |-> Entity(i - 1, (i - 1) % 2 = 0, FALSE, 0)]

\* Menu::new followed by init(): start_row, top_row and selected start at 0
\* and init() runs update_items. The store is the tests' (every second
\* entity played) or one with every third entity played; as a store of
\* feeds each entity owns the sub-store EpRef of its position.
Init ==
    /\ \E n \in 0..MaxLen, m \in 2..3 :
          heap = [r \in Refs |->
                    IF r = FeedRef
                    THEN [i \in 1..n |-> Entity(i - 1, (i - 1) % m = 0, FALSE, EpRef(i - 1))]
                    ELSE <<>>]
    /\ holders = [r \in Refs |-> {}]
    /\ ThreadsAtRest
    /\ UiAtRest
    /\ items = LockVec_new(FeedRef)
    /\ header \in BOOLEAN
    /\ n_row \in PanelRows
    /\ top_row = 0
    /\ fault = FALSE
    /\ start_row = IF header THEN HeaderLastRow + 2 ELSE 0
    /\ selected = IF header THEN HeaderLastRow + 2 ELSE 0
    /\ panel = update_items_panel(start_row)

\* ------------------------------------------------------------ LockVec
\* What the store operations leave alone besides the menu's cursor.
menuRest == <<items, header, start_row, top_row, selected, n_row, fault, uiVars,
              envVars, panel, last_op, ui, input_win>>

\* LockVec::borrow: wait until the mutex is free, then hold its guard.
borrow(t, h) ==
    /\ holders[h.data] = {}
    /\ holders' = [holders EXCEPT ![h.data] = @ \cup {t}]

\* The guard going out of scope at the operation's return.
drop_guard(t, h) == holders' = [holders EXCEPT ![h.data] = @ \ {t}]

\* replace that accepts position 0
replace_from_zero(vec, index, t) ==
    IF index >= 0 /\ index < Len(vec)
    THEN [ok |-> TRUE, vec |-> [vec EXCEPT ![index + 1] = t]]
    ELSE [ok |-> FALSE, vec |-> vec]

\* replace writing one position too low
replace_one_below(vec, index, t) ==
    IF index > 0 /\ index < Len(vec)
    THEN [ok |-> TRUE, vec |-> [vec EXCEPT ![index] = t]]
    ELSE [ok |-> FALSE, vec |-> vec]

\* The body of LockVec::replace on the locked vector: the vector it leaves
\* and whether it returns Ok.
replace(vec, index, t) ==
    IF index > 0 /\ index < Len(vec)
    THEN [ok |-> TRUE, vec |-> [vec EXCEPT ![index + 1] = t]]
    ELSE [ok |-> FALSE, vec |-> vec]

\* Vec::iter().position(|val| val.id == Some(id))
position(vec, id) ==
    IF \E i \in 1..Len(vec) : vec[i].id = id
    THEN Some((CHOOSE i \in 1..Len(vec) :
                vec[i].id = id /\ \A j \in 1..(i - 1) : vec[j].id # id) - 1)
    ELSE None

Flip(f, index) == [i \in DOMAIN f |-> IF i = index + 1 THEN ~f[i] ELSE f[i]]

Enter(t, op, l) ==
    /\ pc[t] = "idle"
    /\ pc' = [pc EXCEPT ![t] = op]
    /\ local' = [local EXCEPT ![t] = l]

Leave(t, r) ==
    /\ pc' = [pc EXCEPT ![t] = "idle"]
    /\ local' = [local EXCEPT ![t] = NoLocal]
    /\ ret' = [ret EXCEPT ![t] = r]

\* replace, up to the lock being taken
replace_call(t, h, index, e) ==
    /\ Enter(t, "replace", [NoLocal EXCEPT !.h = h, !.index = index, !.ent = e])
    /\ borrow(t, h)
    /\ UNCHANGED <<heap, ret, handle, got, menuRest, histVars>>

\* replace_body with the guard kept when the index is refused
replace_body_keeps_guard_on_error(t) ==
    /\ pc[t] = "replace"
    /\ LET l == local[t]
           res == replace(Data(l.h), l.index, l.ent)
       IN  /\ heap' = [heap EXCEPT ![l.h.data] = res.vec]
           /\ Leave(t, [op |-> "replace", ok |-> res.ok])
           /\ IF res.ok THEN drop_guard(t, l.h) ELSE UNCHANGED holders
    /\ UNCHANGED <<handle, menuRest>>

\* replace, from the bounds check to its return (guard dropped on both paths)
replace_body(t) ==
    /\ pc[t] = "replace"
    /\ LET l == local[t]
           res == replace(Data(l.h), l.index, l.ent)
       IN  /\ heap' = [heap EXCEPT ![l.h.data] = res.vec]
           /\ Leave(t, [op |-> "replace", ok |-> res.ok])
           /\ drop_guard(t, l.h)
    /\ UNCHANGED <<handle, menuRest>>

\* replace whose caller keeps no history
replace_return(t) == replace_body(t) /\ UNCHANGED <<got, histVars>>

clone_podcast_call(t, h, index) ==
    /\ Enter(t, "clone_podcast", [NoLocal EXCEPT !.h = h, !.index = index])
    /\ borrow(t, h)
    /\ UNCHANGED <<heap, ret, handle, got, menuRest, histVars>>

clone_podcast_body(t) ==
    /\ pc[t] = "clone_podcast"
    /\ Leave(t, [op |-> "clone_podcast", ok |-> Get(Data(local[t].h), local[t].index) # None])
    /\ drop_guard(t, local[t].h)
    /\ UNCHANGED <<heap, handle, menuRest, histVars>>

\* clone_podcast whose caller drops the clone
clone_podcast_return(t) == clone_podcast_body(t) /\ UNCHANGED got

id_to_index_call(t, h, id) ==
    /\ Enter(t, "id_to_index", [NoLocal EXCEPT !.h = h, !.index = id])
    /\ borrow(t, h)
    /\ UNCHANGED <<heap, ret, handle, got, menuRest, histVars>>

id_to_index_return(t) ==
    /\ pc[t] = "id_to_index"
    /\ Leave(t, [op |-> "id_to_index", ok |-> position(Data(local[t].h), local[t].index) # None])
    /\ drop_guard(t, local[t].h)
    /\ UNCHANGED <<heap, handle, got, menuRest, histVars>>

\* LockVec<Podcast>::clone_episode: takes the feed store's lock ...
clone_episode_call(t, h, pod_index, ep_index) ==
    /\ Enter(t, "clone_episode",
             [NoLocal EXCEPT !.h = h, !.index = pod_index, !.ep_index = ep_index])
    /\ borrow(t, h)
    /\ UNCHANGED <<heap, ret, handle, got, menuRest, histVars>>

\* ... returns None when there is no such podcast ...
clone_episode_none(t) ==
    /\ pc[t] = "clone_episode"
    /\ Get(Data(local[t].h), local[t].index) = None
    /\ Leave(t, [op |-> "clone_episode", ok |-> FALSE])
    /\ drop_guard(t, local[t].h)
    /\ UNCHANGED <<heap, handle, got, menuRest, histVars>>

\* ... and otherwise takes the lock of that podcast's episodes inside it ...
clone_episode_inner(t) ==
    /\ pc[t] = "clone_episode"
    /\ Get(Data(local[t].h), local[t].index) # None
    /\ borrow(t, LockVec_new(Get(Data(local[t].h), local[t].index).episodes))
    /\ pc' = [pc EXCEPT ![t] = "clone_episode_inner"]
    /\ UNCHANGED <<heap, local, ret, handle, got, menuRest, histVars>>

\* ... and drops both guards at its return.
clone_episode_return(t) ==
    /\ pc[t] = "clone_episode_inner"
    /\ LET pod == Get(Data(local[t].h), local[t].index)
       IN  /\ Leave(t, [op |-> "clone_episode", ok |-> Get(heap[pod.episodes], local[t].ep_index) # None])
           /\ holders' = [r \in Refs |->
                            IF r \in {pod.episodes, local[t].h.data}
                            THEN holders[r] \ {t} ELSE holders[r]]
    /\ UNCHANGED <<heap, handle, got, menuRest, histVars>>

\* LockVec<Episode>::clone_episode on an episode store's own handle
ep_clone_episode_call(t, h, index) ==
    /\ Enter(t, "ep_clone_episode", [NoLocal EXCEPT !.h = h, !.index = index])
    /\ borrow(t, h)
    /\ UNCHANGED <<heap, ret, handle, got, menuRest, histVars>>

\* An episode store's lock is never the outer one: a thread that takes the
\* feed store's lock inside an episode store's guard scope.
ep_clone_episode_locks_feed(t) ==
    /\ pc[t] = "ep_clone_episode"
    /\ borrow(t, handle[t])
    /\ UNCHANGED <<heap, pc, local, ret, handle, got, menuRest, histVars>>

ep_clone_episode_return(t) ==
    /\ pc[t] = "ep_clone_episode"
    /\ Leave(t, [op |-> "ep_clone_episode", ok |-> Get(Data(local[t].h), local[t].index) # None])
    /\ drop_guard(t, local[t].h)
    /\ UNCHANGED <<heap, handle, got, menuRest, histVars>>

\* ------------------------------------------- Menu<NewEpisode> selection
\* The loop of change_item_selections over the locked store: for each index
\* with an ID in the order sequence, the entity stored under that ID gets
\* its selected flag set to `selection`, or inverted when it is None.
RECURSIVE change_selections(_, _, _)
\* change_item_selections that sets the flag where it should invert it
change_selections_sets(vec, indexes, selection) ==
    [vec |-> [j \in 1..Len(vec) |->
                IF \E k \in 1..Len(indexes) : indexes[k] = j - 1
                THEN [vec[j] EXCEPT !.selected =
                        IF selection = None THEN TRUE ELSE selection.some]
                ELSE vec[j]],
     changed |-> \E k \in 1..Len(indexes) : Get(vec, indexes[k]) # None]

\* change_item_selections that inverts every flag, whatever `selection` is
change_selections_flips(vec, indexes, selection) ==
    [vec |-> [j \in 1..Len(vec) |->
                IF \E k \in 1..Len(indexes) : indexes[k] = j - 1
                THEN [vec[j] EXCEPT !.selected = ~@]
                ELSE vec[j]],
     changed |-> \E k \in 1..Len(indexes) : Get(vec, indexes[k]) # None]

change_selections(vec, indexes, selection) ==
    IF indexes = <<>>
    THEN [vec |-> vec, changed |-> FALSE]
    ELSE LET idx == Head(indexes)
             found == Get(vec, idx) # None
             step == IF found
                     THEN [j \in 1..Len(vec) |->
                            IF vec[j].id = vec[idx + 1].id
                            THEN [vec[j] EXCEPT !.selected =
                                    IF selection = None THEN ~@ ELSE selection.some]
                            ELSE vec[j]]
                     ELSE vec
             rest == change_selections(step, Tail(indexes), selection)
         IN  [vec |-> rest.vec, changed |-> found \/ rest.changed]

\* select_item: change_item_selections(vec![get_menu_idx(selected)], None),
\* up to the lock being taken
select_item_call(t) ==
    /\ ~fault
    /\ Enter(t, "change_item_selections",
             [NoLocal EXCEPT !.h = items, !.indexes = <<get_menu_idx(selected)>>])
    /\ borrow(t, items)
    /\ UNCHANGED <<heap, ret, handle, got, menuRest, histVars>>

\* select_all_items: items.map(|ep| ep.selected).iter().all(|x| *x)
select_all_items_map(t) ==
    /\ ~fault
    /\ holders[items.data] = {}
    /\ Enter(t, "select_all_items",
             [NoLocal EXCEPT !.h = items,
                 !.selection = Some(~(\A i \in 1..len(items) : Data(items)[i].selected))])
    /\ UNCHANGED <<heap, holders, ret, handle, got, menuRest, histVars>>

\* select_all_items: (0..items.len()).collect()
select_all_items_len(t) ==
    /\ pc[t] = "select_all_items"
    /\ holders[items.data] = {}
    /\ pc' = [pc EXCEPT ![t] = "select_all_items_call"]
    /\ local' = [local EXCEPT ![t].indexes = [i \in 1..len(items) |-> i - 1]]
    /\ UNCHANGED <<heap, holders, ret, handle, got, menuRest, histVars>>

\* select_all_items: change_item_selections(indexes, Some(!all_selected)),
\* up to the lock being taken
select_all_items_call(t) ==
    /\ pc[t] = "select_all_items_call"
    /\ borrow(t, items)
    /\ pc' = [pc EXCEPT ![t] = "change_item_selections"]
    /\ UNCHANGED <<heap, local, ret, handle, got, menuRest, histVars>>

\* change_item_selections from the loop to its return; the caller goes on to
\* update_items when something changed.
change_item_selections_body(t) ==
    /\ pc[t] = "change_item_selections"
    /\ LET l == local[t]
           res == change_selections(Data(l.h), l.indexes, l.selection)
       IN  /\ heap' = [heap EXCEPT ![l.h.data] = res.vec]
           /\ pc' = [pc EXCEPT ![t] = IF res.changed THEN "update_items" ELSE "idle"]
           /\ ret' = [ret EXCEPT ![t] =
                        [op |-> "change_item_selections", ok |-> res.changed]]
    /\ local' = [local EXCEPT ![t] = NoLocal]
    /\ drop_guard(t, local[t].h)
    /\ UNCHANGED <<handle, got, menuRest>>

change_item_selections(t) == change_item_selections_body(t) /\ UNCHANGED histVars

\* The update_items() and highlight_selected(true) that end select_item and
\* select_all_items.
select_update_items(t) ==
    /\ pc[t] = "update_items"
    /\ holders[items.data] = {}
    /\ update_items_body
    /\ pc' = [pc EXCEPT ![t] = "idle"]
    /\ UNCHANGED <<storeVars, local, ret, handle, got, histVars, uiVars, envVars,
                   panel, last_op, ui, input_win>>

\* The multi-select menu on the UI thread: the cursor moves, select_item
\* and select_all_items run to their end.
NextSelect ==
    \/ pc["ui"] = "idle" /\ scroll(1)
    \/ pc["ui"] = "idle" /\ scroll(-1)
    \/ pc["ui"] = "idle" /\ select_item_call("ui")
    \/ pc["ui"] = "idle" /\ select_all_items_map("ui")
    \/ select_all_items_len("ui")
    \/ select_all_items_call("ui")
    \/ change_item_selections("ui")
    \/ select_update_items("ui")

SpecSelect == Init /\ [][NextSelect]_vars

\* ------------------------------------------- the store under two threads
\* The feed list: feed i has id i, is played iff i is even, and owns the
\* sub-store at EpRef(i), which holds one episode when i is even.
Feeds(n) == [i \in 1..n |-> Entity(i - 1, (i - 1) % 2 = 0, FALSE, EpRef(i - 1))]

EpCount(i) == 1 - (i % 2)

\* The controller constructs the store and keeps its handle; the UI thread
\* is given a clone, and UI::new puts a clone of that into the menu.
InitStore ==
    /\ \E n \in 0..MaxFeeds :
        /\ heap = [r \in Refs |->
                    IF r \in {FeedRef, CopyRef} THEN Feeds(n)
                    ELSE IF r - 2 < n THEN TestItems(EpCount(r - 2)) ELSE <<>>]
        /\ store0 = Feeds(n)
        /\ flipped = [i \in 1..n |-> FALSE]
        /\ toggled = [i \in 1..n |-> FALSE]
    /\ holders = [r \in Refs |-> {}]
    /\ pc = [t \in Threads |-> "idle"]
    /\ local = [t \in Threads |-> NoLocal]
    /\ ret = [t \in Threads |-> NoRet]
    /\ handle = [t \in Threads |->
                  IF t = "worker" THEN LockVec_new(FeedRef)
                  ELSE LockVec_clone(LockVec_new(FeedRef))]
    /\ got = [t \in Threads |-> None]
    /\ items = LockVec_clone(LockVec_clone(LockVec_new(FeedRef)))
    /\ lastWrite = None
    /\ UiAtRest
    /\ header = FALSE
    /\ n_row = MaxRows
    /\ start_row = 0
    /\ top_row = 0
    /\ selected = 0
    /\ fault = FALSE
    /\ panel = update_items_panel(start_row)

\* An ID no entity of the constructed store has.
SpareId == MaxFeeds

\* The entity a caller hands to replace at `index`: the entity there under
\* another ID, or a new entity for a position outside the store.
ReplaceArg(vec, index) ==
    IF Get(vec, index) = None
    THEN Entity(SpareId, FALSE, FALSE, EpRef(0))
    ELSE [Get(vec, index) EXCEPT !.id = SpareId]

\* Handles to the sub-stores of the feeds a thread can see.
EpHandles(t) ==
    {LockVec_clone(LockVec_new(Data(handle[t])[i].episodes)) :
        i \in 1..Len(Data(handle[t]))}

NextStore ==
    \/ \E t \in Threads, index \in 0..MaxFeeds :
         replace_call(t, handle[t], index, ReplaceArg(Data(handle[t]), index))
    \/ \E t \in Threads : replace_return(t)
    \/ \E t \in Threads, index \in 0..MaxFeeds :
         clone_podcast_call(t, handle[t], index)
    \/ \E t \in Threads : clone_podcast_return(t)
    \/ \E t \in Threads, id \in {0, SpareId} : id_to_index_call(t, handle[t], id)
    \/ \E t \in Threads : id_to_index_return(t)
    \/ \E t \in Threads, index \in 0..MaxFeeds :
         clone_episode_call(t, handle[t], index, 0)
    \/ \E t \in Threads : clone_episode_none(t)
    \/ \E t \in Threads : clone_episode_inner(t)
    \/ \E t \in Threads : clone_episode_return(t)
    \/ \E t \in Threads : \E h \in EpHandles(t) : ep_clone_episode_call(t, h, 0)
    \/ \E t \in Threads : ep_clone_episode_return(t)
    \/ select_item_call("ui")
    \/ select_all_items_map("ui")
    \/ select_all_items_len("ui")
    \/ select_all_items_call("ui")
    \/ change_item_selections("ui")
    \/ select_update_items("ui")

SpecStore == InitStore /\ [][NextStore]_vars

\* Look-ups by ID and by position on a store that replace has written to,
\* the caller handing replace the entity there under another ID or a clone
\* of the store's first entity.
NextIndex ==
    \/ \E t \in Threads, index \in 0..MaxFeeds :
         replace_call(t, handle[t], index, ReplaceArg(Data(handle[t]), index))
    \/ \E t \in Threads, index \in 0..MaxFeeds :
         /\ len(handle[t]) > 0
         /\ replace_call(t, handle[t], index, Data(handle[t])[1])
    \/ \E t \in Threads : replace_return(t)
    \/ \E t \in Threads, index \in 0..MaxFeeds :
         clone_podcast_call(t, handle[t], index)
    \/ \E t \in Threads : clone_podcast_return(t)
    \/ \E t \in Threads, id \in 0..SpareId : id_to_index_call(t, handle[t], id)
    \/ \E t \in Threads : id_to_index_return(t)

SpecIndex == InitStore /\ [][NextIndex]_vars

\* ------------------------------------------------ titles and substrings
\* A string is the sequence of its characters; a character is its place in
\* the string it came from and the number of bytes of its UTF-8 encoding
\* (`at` is 0 for the characters a format string adds).

\* The bytes of the first k characters: the sum of c.len_utf8() over them.
RECURSIVE utf8_len(_, _)
utf8_len(s, k) == IF k = 0 THEN 0 ELSE utf8_len(s, k - 1) + s[k].n

\* substring that counts one byte for every character
substring_by_bytes(s, start, length) ==
    LET walked == min(start, Len(s))
        taken_chars == min(length, Len(s) - walked)
    IN  [byte_start |-> walked, byte_end |-> walked + taken_chars,
         count |-> taken_chars]

\* StringUtils::substring: the first loop walks `start` characters (or to the
\* end) adding their bytes to byte_start, the second walks `len` more adding
\* theirs to byte_end; the result is &self[byte_start..byte_end], and
\* `count` is the number of characters the second loop walked.
substring(s, start, length) ==
    LET walked == min(start, Len(s))
        taken_chars == min(length, Len(s) - walked)
    IN  [byte_start |-> utf8_len(s, walked),
         byte_end |-> utf8_len(s, walked + taken_chars),
         count |-> taken_chars]

\* usize is modelled with this modulus (2^20 standing for 2^64): every
\* length of the model is far below it.
USIZE == 1048576
PODCAST_UNPLAYED_TOTALS_LENGTH == 25
EPISODE_DURATION_LENGTH == 45
EPISODE_PUBDATE_LENGTH == 60

\* Podcast::get_title(length) for a title of `title` characters and a feed
\* with `unplayed` played episodes out of `total`: the characters of the
\* title kept, the width of the padded "(", the characters after it, and
\* whether a usize subtraction went below zero (a panic in a debug build, a
\* wrapped value in a release build).
Podcast_get_title(title, unplayed, total, length, build) ==
    LET digits(n) == IF n < 10 THEN 1 ELSE 2
        out == substring(title, 0, length).count
        added_len == digits(unplayed) + digits(total) + 4
        cut == substring(title, 0, (length - added_len) % USIZE).count
        width == (length - cut - added_len + 2) % USIZE
        below == length < added_len \/ length - cut < added_len
    IN  IF length > PODCAST_UNPLAYED_TOTALS_LENGTH
        THEN [panic |-> below /\ build = "debug", below |-> below,
              label |-> cut,
              pad |-> IF width > 1 THEN width ELSE 1,
              meta |-> digits(unplayed) + 1 + digits(total) + 1]
        ELSE [panic |-> FALSE, below |-> FALSE, label |-> out,
              pad |-> 0, meta |-> 0]

\* Episode::get_title(length): `path` is whether the episode is downloaded,
\* `pubdate` whether it has a publish date, `dur` the length of what
\* format_duration returns ("--:--:--" and "HH:MM:SS" are 8 characters, an
\* episode of 100 hours or more has 9).
Episode_get_title(title, path, pubdate, dur, length, build) ==
    LET prefix == IF path THEN 4 ELSE 0
        out == prefix + substring(title, 0,
                            IF path THEN (length - 4) % USIZE ELSE length).count
        added_len == IF length > EPISODE_PUBDATE_LENGTH /\ pubdate
                     THEN dur + 3 + 10 + 3 ELSE dur + 3
        \* out.substring(0, length - added_len)
        cut == min(out, (length - added_len) % USIZE)
        width == (length - out - added_len + 2) % USIZE
        meta == IF length > EPISODE_PUBDATE_LENGTH /\ pubdate
                THEN 10 + 3 + dur + 1 ELSE dur + 1
        below1 == path /\ length < 4
        below2 == length < added_len \/ length < out \/ length - out < added_len
    IN  IF length > EPISODE_DURATION_LENGTH
        THEN [panic |-> (below1 \/ below2) /\ build = "debug",
              below |-> below1 \/ below2,
              label |-> cut, pad |-> IF width > 1 THEN width ELSE 1, meta |-> meta]
        ELSE [panic |-> below1 /\ build = "debug", below |-> below1,
              label |-> out, pad |-> 0, meta |-> 0]

\* The callers of substring and get_title: every string of at most MaxStr
\* characters of 1 to 4 bytes with every start and len, and titles of up to
\* MaxTitle characters at every width up to MaxWidth, one call each.
NextText ==
    \/ last_op.op = "new" /\ \E k \in 0..MaxStr : \E w \in [1..k -> 1..4] :
       \E start \in 0..(MaxStr + 1), length \in 0..(MaxStr + 1) :
         LET s == [i \in 1..k |-> [at |-> i, n |-> w[i]]]
         IN  /\ last_op' = [op |-> "substring", s |-> s, start |-> start,
                            length |-> length, out |-> substring(s, start, length)]
             /\ UNCHANGED <<menuVars, outsideMenu, panel>>
    \/ last_op.op = "new" /\ \E k \in 0..MaxTitle, unplayed \in {0, 12}, length \in 0..MaxWidth,
          build \in {"debug", "release"} :
         LET title == [i \in 1..k |-> [at |-> i, n |-> 1 + (i % 4)]]
         IN  /\ last_op' = [op |-> "Podcast::get_title", title |-> k,
                            unplayed |-> unplayed,
                            length |-> length, build |-> build,
                            out |-> Podcast_get_title(title, unplayed, 12, length, build)]
             /\ UNCHANGED <<menuVars, outsideMenu, panel>>
    \/ last_op.op = "new" /\ \E k \in 0..MaxTitle, path \in BOOLEAN, pubdate \in BOOLEAN,
          dur \in {8, 9}, length \in 0..MaxWidth, build \in {"debug", "release"} :
         LET title == [i \in 1..k |-> [at |-> i, n |-> 1 + (i % 4)]]
         IN  /\ last_op' = [op |-> "Episode::get_title", title |-> k, path |-> path,
                            pubdate |-> pubdate, dur |-> dur,
                            length |-> length, build |-> build,
                            out |-> Episode_get_title(title, path, pubdate, dur, length, build)]
             /\ UNCHANGED <<menuVars, outsideMenu, panel>>

SpecText == InitStore /\ [][NextText]_vars

\* ------------------------------------------------- nested lock scopes
\* One row of the feed menu's repaint (Menu::update_items, Menu::scroll):
\* the scrutinee of `if let Some(elem) = self.items.borrow().get(idx)` takes
\* the feed store's lock and its guard lives to the end of the if-let; with
\* no such row the guard is dropped at once, and after the row is printed
\* it is dropped at the closing brace.
update_items_elem(t, index) ==
    \/ /\ Enter(t, "update_items_elem", [NoLocal EXCEPT !.h = items, !.index = index])
       /\ borrow(t, items)
       /\ UNCHANGED <<heap, ret, handle, got, menuRest, histVars>>
    \/ /\ pc[t] = "update_items_elem"
       /\ local[t].index = index
       /\ Get(Data(local[t].h), index) = None
       /\ Leave(t, [op |-> "update_items_elem", ok |-> FALSE])
       /\ drop_guard(t, local[t].h)
       /\ UNCHANGED <<heap, handle, got, menuRest, histVars>>
    \/ /\ pc[t] = "update_items_printed"
       /\ local[t].index = index
       /\ Leave(t, [op |-> "update_items_elem", ok |-> TRUE])
       /\ drop_guard(t, local[t].h)
       /\ UNCHANGED <<heap, handle, got, menuRest, histVars>>

\* Podcast::get_title called on the row's element inside that scope: a
\* width of at most PODCAST_UNPLAYED_TOTALS_LENGTH takes no lock; a larger
\* one takes the lock of the feed's own episodes for the inner block that
\* counts them, and drops it at the end of that block.
Podcast_get_title_borrow(t, length) ==
    \/ /\ pc[t] = "update_items_elem"
       /\ Get(Data(local[t].h), local[t].index) # None
       /\ length <= PODCAST_UNPLAYED_TOTALS_LENGTH
       /\ pc' = [pc EXCEPT ![t] = "update_items_printed"]
       /\ UNCHANGED <<storeVars, local, ret, handle, got, menuRest, histVars>>
    \/ /\ pc[t] = "update_items_elem"
       /\ Get(Data(local[t].h), local[t].index) # None
       /\ length > PODCAST_UNPLAYED_TOTALS_LENGTH
       /\ borrow(t, LockVec_new(Get(Data(local[t].h), local[t].index).episodes))
       /\ pc' = [pc EXCEPT ![t] = "get_title"]
       /\ UNCHANGED <<heap, local, ret, handle, got, menuRest, histVars>>
    \/ /\ pc[t] = "get_title"
       /\ length > PODCAST_UNPLAYED_TOTALS_LENGTH
       /\ drop_guard(t, LockVec_new(Get(Data(local[t].h), local[t].index).episodes))
       /\ pc' = [pc EXCEPT ![t] = "update_items_printed"]
       /\ UNCHANGED <<heap, local, ret, handle, got, menuRest, histVars>>

\* Every place of the source that takes a second lock inside a first, with
\* the operations on an episode store's own handle beside them: the UI
\* thread repaints while any thread clones episodes.
NextLocks ==
    \/ \E t \in Threads, index \in 0..MaxFeeds :
         clone_episode_call(t, handle[t], index, 0)
    \/ \E t \in Threads : clone_episode_none(t)
    \/ \E t \in Threads : clone_episode_inner(t)
    \/ \E t \in Threads : clone_episode_return(t)
    \/ \E t \in Threads : \E h \in EpHandles(t) : ep_clone_episode_call(t, h, 0)
    \/ \E t \in Threads : ep_clone_episode_return(t)
    \/ \E index \in 0..MaxFeeds : update_items_elem("ui", index)
    \/ \E length \in {PODCAST_UNPLAYED_TOTALS_LENGTH, PODCAST_UNPLAYED_TOTALS_LENGTH + 1} :
         Podcast_get_title_borrow("ui", length)

SpecLocks == InitStore /\ [][NextLocks]_vars

\* ------------------------------------------------------ the input prompt
\* UI::spawn_input_win up to its loop: the window shows the prefix, the
\* buffer is empty and the three columns are at the end of the prefix.
spawn_input_win(prefix) ==
    /\ ~input_win.open
    /\ input_win' = [open |-> TRUE, inputs |-> <<>>, line |-> prefix,
                     min_x |-> Len(prefix), current_x |-> Len(prefix),
                     cursor_x |-> Len(prefix), panic |-> FALSE,
                     returned |-> None]
    /\ UNCHANGED <<menuVars, storeVars, threadVars, histVars, uiVars,
                   poisoned, msg_wins, other_painters, ui, panel, last_op>>

\* One turn of spawn_input_win's loop on the key `k`, with String::remove
\* panicking on an index outside the buffer (or below zero), Window::insch
\* inserting before the cursor column and Window::delch deleting there; on
\* Enter and Esc the function returns and getch turns a non-empty string
\* into UiMsg::AddFeed.
input_win_getch(k) ==
    LET w == input_win
        remove(str, i) == IF i < Len(str)
                          THEN SubSeq(str, 1, i) \o SubSeq(str, i + 2, Len(str))
                          ELSE str
        blanks(n) == [i \in 1..n |-> " "]
        insch(x, c) == IF x <= Len(w.line)
                       THEN SubSeq(w.line, 1, x) \o <<c>> \o SubSeq(w.line, x + 1, Len(w.line))
                       ELSE w.line \o blanks(x - Len(w.line)) \o <<c>>
        back_x == w.cursor_x - 1
        next ==
            CASE k = "Esc" -> [w EXCEPT !.open = FALSE, !.returned = Some(<<>>)]
              [] k = "Enter" -> [w EXCEPT !.open = FALSE, !.returned = Some(w.inputs)]
              [] k = "Backspace" ->
                    IF w.current_x > w.min_x
                    THEN IF back_x < w.min_x \/ back_x - w.min_x >= Len(w.inputs)
                         THEN [w EXCEPT !.current_x = @ - 1, !.cursor_x = back_x,
                                        !.panic = TRUE]
                         ELSE [w EXCEPT !.current_x = @ - 1, !.cursor_x = back_x,
                                        !.inputs = remove(@, back_x - w.min_x),
                                        !.line = remove(@, back_x)]
                    ELSE w
              [] k = "DC" ->
                    IF w.cursor_x < w.current_x
                    THEN IF w.cursor_x - w.min_x >= Len(w.inputs)
                         THEN [w EXCEPT !.panic = TRUE]
                         ELSE [w EXCEPT !.inputs = remove(@, w.cursor_x - w.min_x),
                                        !.line = remove(@, w.cursor_x)]
                    ELSE w
              [] k = "Left" ->
                    IF w.cursor_x > w.min_x THEN [w EXCEPT !.cursor_x = @ - 1] ELSE w
              [] k = "Right" ->
                    IF w.cursor_x < w.current_x THEN [w EXCEPT !.cursor_x = @ + 1] ELSE w
              [] OTHER -> [w EXCEPT !.current_x = @ + 1, !.cursor_x = @ + 1,
                                    !.line = insch(w.cursor_x, k),
                                    !.inputs = Append(@, k)]
    IN  /\ input_win.open
        /\ ~input_win.panic
        /\ k \in {"a", "b"} => input_win.current_x - input_win.min_x < MaxTyped
        /\ input_win' = next
        /\ message' = IF next.returned # None /\ next.returned.some # <<>>
                      THEN "AddFeed" ELSE "Noop"
        /\ UNCHANGED <<menuVars, storeVars, threadVars, histVars, surface,
                       rx_from_main, tx_to_main, inputs, taken, torn_down, sent,
                       processed, produced, received, poisoned, msg_wins,
                       other_painters, ui, panel, last_op>>

NextInput ==
    \/ spawn_input_win(<<"F", ":">>)
    \/ \E k \in {"a", "b", "Backspace", "DC", "Left", "Right", "Enter", "Esc"} :
         input_win_getch(k)

SpecInput == InitStore /\ [][NextInput]_vars

\* ------------------------------------------ the two menus of UI (ui.rs)
\* A menu of ui.rs is [items, n_row, top_row, selected, win, panic]: `win`
\* gives for each of its n_row rows the palette it was last painted with
\* ("blank": nothing printed there since the last erase), `panic` that an
\* unwrap or a usize subtraction of one of its methods failed.  Two fields
\* of `ui` are history: `entered` (the item menu was entered by Right with
\* both lists non-empty) and `keys_only` (no refresh and no store change
\* since UI::new).

\* Menu::update_items of ui.rs: erase, selected = -1 on an empty store and 0
\* if it was -1, then every row that has an item printed with no palette.
Menu_update_items(m) ==
    LET list_len == Len(heap[m.items.data])
    IN  [m EXCEPT
           !.selected = IF list_len = 0 THEN -1 ELSE IF @ = -1 THEN 0 ELSE @,
           !.win = [i \in 0..(m.n_row - 1) |->
                      IF list_len # 0 /\ m.top_row + i < list_len
                      THEN "Normal" ELSE "blank"]]

\* window.mvchgat(abs_y(row), .., palette) as activate, deactivate and scroll
\* call it: the row of the window, if there is one, takes the palette.
mvchgat(m, row, color) ==
    IF row \in DOMAIN m.win THEN [m EXCEPT !.win[row] = color] ELSE m

\* Menu::scroll of ui.rs.
Menu_scroll(m, lines) ==
    LET vec == heap[m.items.data]
        bottom == min(m.n_row, Len(vec) - 1)
        s1 == m.selected + lines
        s2 == IF s1 > bottom THEN bottom ELSE s1
        down == s2 > m.n_row - 1
        up == ~down /\ s2 < 0
        shiftDown == down /\ Get(vec, m.top_row + m.n_row) # None
        shiftUp == up /\ Get(vec, m.top_row - 1) # None
        sel == IF down THEN m.n_row - 1 ELSE IF up THEN 0 ELSE s2
        top == IF shiftDown THEN m.top_row + 1
               ELSE IF shiftUp THEN m.top_row - 1 ELSE m.top_row
        old_selected == IF shiftDown THEN m.selected - 1
                        ELSE IF shiftUp THEN m.selected + 1 ELSE m.selected
        \* deleteln on the first row, insertln before it
        moved == [i \in 0..(m.n_row - 1) |->
                    IF shiftDown
                    THEN IF i + 1 < m.n_row THEN m.win[i + 1] ELSE "Normal"
                    ELSE IF shiftUp
                    THEN IF i = 0 THEN "Normal" ELSE m.win[i - 1]
                    ELSE m.win[i]]
    IN  IF m.selected = -1 THEN m
        ELSE IF \/ Len(vec) = 0
                \/ Get(vec, top + old_selected) = None
                \/ Get(vec, top + sel) = None
        THEN [m EXCEPT !.panic = TRUE]
        ELSE mvchgat(mvchgat([m EXCEPT !.selected = sel, !.top_row = top,
                                       !.win = moved],
                             old_selected, "Normal"),
                     sel, "HighlightedActive")

\* Menu::activate, Menu<Podcast>::deactivate and Menu<Episode>::deactivate
\* of ui.rs, which differ in the palette: nothing at selected = -1, an
\* unwrap of items.get(selected) otherwise.
Menu_activate(m, color) ==
    IF m.selected > -1
    THEN IF Get(heap[m.items.data], m.selected) = None
         THEN [m EXCEPT !.panic = TRUE]
         ELSE mvchgat(m, m.selected, color)
    ELSE m

\* UI::new: the feed menu on the store, painted and activated; the item menu
\* on the sub-store of the first feed, or on a new empty LockVec when there
\* is no feed.
UI_new(rows) ==
    LET blank == [i \in 0..(rows - 1) |-> "blank"]
        first_pod == IF Get(heap[FeedRef], 0) # None
                     THEN LockVec_clone([data |-> Get(heap[FeedRef], 0).episodes])
                     ELSE LockVec_new(CopyRef)
        menu(h) == [items |-> h, n_row |-> rows, top_row |-> 0, selected |-> 0,
                    win |-> blank, panic |-> FALSE]
    IN  /\ ~ui.built
        /\ heap' = [heap EXCEPT ![CopyRef] = <<>>]
        /\ ui' = [built |-> TRUE, active_menu |-> "PodcastMenu", entered |-> FALSE,
                  keys_only |-> TRUE, emitted |-> None,
                  podcast_menu |->
                      Menu_activate(Menu_update_items(
                          menu(LockVec_clone(LockVec_new(FeedRef)))),
                          "HighlightedActive"),
                  episode_menu |->
                      IF Get(heap[FeedRef], 0) # None
                      THEN Menu_update_items(menu(first_pod))
                      ELSE [menu(first_pod) EXCEPT !.selected = -1]]
        /\ UNCHANGED <<holders, menuVars, threadVars, histVars, uiVars, poisoned,
                       msg_wins, other_painters, input_win, panel, last_op>>

\* UI::update_menus, as the loop calls it for MainMessage::UiUpdateMenus.
UI_update_menus ==
    /\ ui.built
    /\ ~ui.podcast_menu.panic /\ ~ui.episode_menu.panic
    /\ ui' = [ui EXCEPT !.podcast_menu = Menu_update_items(@),
                        !.episode_menu = Menu_update_items(@),
                        !.keys_only = FALSE,
                        !.emitted = None]
    /\ message' = "Noop"
    /\ UNCHANGED <<storeVars, menuVars, threadVars, histVars, surface, rx_from_main,
                   tx_to_main, inputs, taken, torn_down, sent, processed, produced,
                   received, poisoned, msg_wins, other_painters, input_win, panel,
                   last_op>>

\* UI::getch on one key: KeyResize to `rows` menu rows, or a user action.
\* `message` is the UiMsg returned; ui.emitted has the positions it carries
\* and the lengths getch read.
UI_getch(key, rows) ==
    LET pm == ui.podcast_menu
        em == ui.episode_menu
        pod_len == Len(heap[pm.items.data])
        ep_len == Len(heap[em.items.data])
        current_pod_index == (pm.selected + pm.top_row) % USIZE
        current_ep_index == (em.selected + em.top_row) % USIZE
        active == ui.active_menu
        \* Menu::resize followed by the new window
        resized(m) ==
            [m EXCEPT !.n_row = rows,
                      !.top_row = IF m.selected > rows - 1
                                  THEN m.top_row + m.selected - (rows - 1) ELSE @,
                      !.selected = IF m.selected > rows - 1 THEN rows - 1 ELSE @,
                      !.win = [i \in 0..(rows - 1) |-> "blank"]]
        \* Up / Down in the feed menu: scroll, then the item menu is reset
        \* and given get_episodes() of the feed menu
        pm2(lines) == Menu_scroll(pm, lines)
        pod2(lines) == Get(heap[pm.items.data], pm2(lines).selected + pm2(lines).top_row)
        em2(lines) ==
            IF pm2(lines).panic THEN em
            ELSE IF pod2(lines) = None THEN [em EXCEPT !.panic = TRUE]
            ELSE Menu_update_items(
                    [em EXCEPT !.top_row = 0, !.selected = 0,
                               !.items = LockVec_clone([data |-> pod2(lines).episodes])])
        lines == IF key = "Down" THEN 1 ELSE -1
        unwrap_fails ==
            \/ key = "MarkPlayed" /\ active = "EpisodeMenu" /\ ep_len > 0
                 /\ Get(heap[em.items.data], current_ep_index) = None
            \/ key = "MarkAllPlayed" /\ pod_len > 0
                 /\ Get(heap[pm.items.data], current_pod_index) = None
        emits ==
            \/ key \in {"Sync", "MarkAllPlayed", "DownloadAll"} /\ pod_len > 0
            \/ key \in {"Play", "Download"} /\ ep_len > 0
            \/ key = "MarkPlayed" /\ active = "EpisodeMenu" /\ ep_len > 0
        emitted ==
            IF emits /\ ~unwrap_fails
            THEN Some([pod |-> current_pod_index, ep |-> current_ep_index,
                       pod_len |-> pod_len, ep_len |-> ep_len])
            ELSE None
        ui1 ==
             CASE key = "KeyResize" ->
                    [ui EXCEPT
                       !.podcast_menu =
                           Menu_activate(Menu_update_items(resized(pm)),
                                         "HighlightedActive"),
                       !.episode_menu =
                           IF active = "EpisodeMenu"
                           THEN Menu_activate(Menu_update_items(resized(em)),
                                              "HighlightedActive")
                           ELSE Menu_update_items(resized(em))]
               [] key \in {"Down", "Up"} /\ active = "PodcastMenu" /\ pod_len > 0 ->
                    [ui EXCEPT !.podcast_menu = pm2(lines),
                               !.episode_menu = em2(lines)]
               [] key = "Down" /\ active = "EpisodeMenu" /\ ep_len > 0 ->
                    [ui EXCEPT !.episode_menu = Menu_scroll(em, 1)]
               [] key = "Up" /\ active = "EpisodeMenu" /\ pod_len > 0 ->
                    [ui EXCEPT !.episode_menu = Menu_scroll(em, -1)]
               [] key = "Left" /\ active = "EpisodeMenu" /\ pod_len > 0 ->
                    [ui EXCEPT !.active_menu = "PodcastMenu",
                               !.entered = FALSE,
                               !.podcast_menu = Menu_activate(pm, "HighlightedActive"),
                               !.episode_menu = Menu_activate(em, "Normal")]
               [] key = "Right" /\ active = "PodcastMenu" /\ pod_len > 0 /\ ep_len > 0 ->
                    [ui EXCEPT !.active_menu = "EpisodeMenu",
                               !.entered = TRUE,
                               !.podcast_menu = Menu_activate(pm, "Highlighted"),
                               !.episode_menu = Menu_activate(em, "HighlightedActive")]
               [] unwrap_fails -> [ui EXCEPT !.podcast_menu.panic = TRUE]
               [] OTHER -> ui
    IN  /\ ui.built
        /\ ~pm.panic /\ ~em.panic
        /\ ui' = [ui1 EXCEPT !.emitted = emitted]
        /\ message' = IF emitted = None THEN "Noop" ELSE key
        /\ UNCHANGED <<storeVars, menuVars, threadVars, histVars, surface, rx_from_main,
                       tx_to_main, inputs, taken, torn_down, sent, processed, produced,
                       received, poisoned, msg_wins, other_painters, input_win, panel,
                       last_op>>

\* The controller, between two steps of the UI thread, assigns the feed
\* store or the item store of one feed (a feed or an item added or removed).
main_store(r, vec) ==
    /\ ui.built
    /\ heap[r] # vec
    /\ heap' = [heap EXCEPT ![r] = vec]
    /\ ui' = [ui EXCEPT !.keys_only = FALSE]
    /\ UNCHANGED <<holders, menuVars, threadVars, histVars, uiVars, poisoned,
                   msg_wins, other_painters, input_win, panel, last_op>>

NextUi ==
    \/ \E rows \in 1..MaxFeeds : UI_new(rows)
    \/ UI_update_menus
    \/ \E key \in {"Down", "Up", "Left", "Right", "Sync", "Play", "MarkPlayed",
                    "MarkAllPlayed", "Download", "DownloadAll"} : UI_getch(key, 0)
    \/ \E rows \in 1..MaxFeeds : UI_getch("KeyResize", rows)
    \/ \E k \in 0..MaxFeeds : main_store(FeedRef, Feeds(k))
    \/ \E i \in 0..(MaxFeeds - 1), k \in 0..1 : main_store(EpRef(i), TestItems(k))

SpecUi == InitStore /\ [][NextUi]_vars

\* --------------------------- two threads mutating disjoint positions
\* The UI thread owns the even positions and the worker the odd ones.
Positions(t) ==
    {i \in 0..(Len(store0) - 1) : (i % 2 = 0) <=> (t = "ui")}

\* A mutation of a feed: clone it, invert its played flag, replace it.
mutate_read_call(t, index) ==
    /\ got[t] = None
    /\ clone_podcast_call(t, handle[t], index)

mutate_read_return(t) ==
    /\ clone_podcast_body(t)
    /\ got' = [got EXCEPT ![t] =
                [index |-> local[t].index,
                 val |-> Get(Data(local[t].h), local[t].index)]]

mutate_write_call(t) ==
    /\ got[t] # None
    /\ got[t].val # None
    /\ replace_call(t, handle[t], got[t].index, [got[t].val EXCEPT !.played = ~@])

mutate_write_return(t) ==
    /\ replace_body(t)
    /\ got' = [got EXCEPT ![t] = None]
    /\ flipped' = IF replace(Data(local[t].h), local[t].index, local[t].ent).ok
                  THEN Flip(flipped, local[t].index) ELSE flipped
    /\ UNCHANGED <<store0, toggled, lastWrite>>

\* The selection change of select_item, recorded.
mutate_select_return(t) ==
    /\ change_item_selections_body(t)
    /\ toggled' = [i \in DOMAIN toggled |->
                    IF Get(Data(local[t].h), i - 1) # None
                       /\ \E k \in 1..Len(local[t].indexes) : local[t].indexes[k] = i - 1
                    THEN ~toggled[i] ELSE toggled[i]]
    /\ UNCHANGED <<store0, flipped, lastWrite>>

NextDisjoint ==
    \/ \E t \in Threads : \E index \in Positions(t) : mutate_read_call(t, index)
    \/ \E t \in Threads : mutate_read_return(t)
    \/ \E t \in Threads : mutate_write_call(t)
    \/ \E t \in Threads : mutate_write_return(t)
    \/ select_item_call("ui")
    \/ mutate_select_return("ui")
    \/ select_update_items("ui")

SpecDisjoint == InitStore /\ [][NextDisjoint]_vars

\* ------------------------------------------- writes seen through handles
\* A replace that records what it wrote.
write_return(t) ==
    /\ replace_body(t)
    /\ lastWrite' = IF replace(Data(local[t].h), local[t].index, local[t].ent).ok
                    THEN [by |-> t, index |-> local[t].index, ent |-> local[t].ent]
                    ELSE lastWrite
    /\ UNCHANGED <<got, store0, flipped, toggled>>

\* A clone_podcast whose caller keeps the clone.
read_call(t, index) == clone_podcast_call(t, handle[t], index)

read_return(t) == mutate_read_return(t)

NextShare ==
    \/ \E t \in Threads, index \in 0..MaxFeeds :
         replace_call(t, handle[t], index, ReplaceArg(Data(handle[t]), index))
    \/ \E t \in Threads : mutate_write_call(t)
    \/ \E t \in Threads : write_return(t)
    \/ \E t \in Threads, index \in 0..MaxFeeds : read_call(t, index)
    \/ \E t \in Threads : read_return(t)

SpecShare == InitStore /\ [][NextShare]_vars

\* ------------------------------- the UI thread against a changing store
\* A caller outside the store's own methods takes the guard with borrow()
\* and assigns the vector: the whole-store replace that removes entities.
store_set_call(t) ==
    /\ pc[t] = "idle"
    /\ borrow(t, handle[t])
    /\ Enter(t, "store_set", [NoLocal EXCEPT !.h = handle[t]])
    /\ UNCHANGED <<heap, ret, handle, got, menuRest, histVars>>

store_set_return(t, k) ==
    /\ pc[t] = "store_set"
    /\ k < Len(Data(local[t].h))
    /\ heap' = [heap EXCEPT ![local[t].h.data] = SubSeq(@, 1, k)]
    /\ Leave(t, [op |-> "store_set", ok |-> TRUE])
    /\ drop_guard(t, local[t].h)
    /\ UNCHANGED <<handle, got, menuRest, histVars>>

\* highlight_selected that styles the cursor row without looking the entity up
highlight_selected_unchecked(color) ==
    /\ ~fault
    /\ panel' = set_attrs(panel, selected, FALSE, color)
    /\ last_op' = [op |-> "highlight_selected", lines |-> 0, selected |-> selected,
                   top_row |-> top_row, len |-> len(items), panel |-> panel,
                   color |-> color]
    /\ UNCHANGED <<menuVars, outsideMenu>>

\* Menu::highlight_selected(true) and Menu::activate (HighlightedActive),
\* highlight_selected(false) and Menu<Podcast>::deactivate (Highlighted),
\* Menu<Episode>::deactivate (Normal): nothing when the lookup gives None.
highlight_selected(color) ==
    /\ ~fault
    /\ LET is_p == map_single_by_index(items, get_menu_idx(selected))
       IN  panel' = IF is_p = None THEN panel
                    ELSE set_attrs(panel, selected, is_played(is_p), color)
    /\ last_op' = [op |-> "highlight_selected", lines |-> 0, selected |-> selected,
                   top_row |-> top_row, len |-> len(items), panel |-> panel,
                   color |-> color]
    /\ UNCHANGED <<menuVars, outsideMenu>>

\* UI::getch for one key of the podcast menu's handlers (a menu of the UI
\* has no header), with the menu that
\* is active and the length of the episode list (empty under an empty
\* podcast list): Down / Up scroll and take get_episodes of the podcast
\* menu (the entity at selected + top_row, unwrapped, and a clone of its
\* episodes handle), Left / Right run activate / deactivate
\* (which look the entity up at `selected` and unwrap it), the other keys
\* only choose the intent.
getch_key(key, active, ep_len) ==
    LET pod_len == len(items)
        lines == IF key = "Down" THEN 1 ELSE -1
        color == IF key = "Left" /\ pod_len > 0 /\ active = "EpisodeMenu"
                 THEN "HighlightedActive"
                 ELSE IF key = "Right" /\ pod_len > 0 /\ ep_len > 0
                         /\ active = "PodcastMenu"
                 THEN "Highlighted"
                 ELSE "none"
        el == Get(Data(items), selected)
    IN  /\ ~fault
        /\ ~header
        /\ holders[items.data] = {}
        /\ pod_len = 0 => ep_len = 0
        \* the inputs a handler does not read are taken once
        /\ key \in {"Down", "Up", "Left", "Sync"} => ep_len = 0
        /\ key \in {"Play", "Download", "Sync"} => active = "PodcastMenu"
        /\ IF key \in {"Down", "Up"} /\ active = "PodcastMenu" /\ pod_len > 0
           THEN /\ scroll_body(lines)
                /\ panel' = scroll_panel(lines)
                /\ LET pod == Get(Data(items), selected' + top_row')
                   IN  got' = IF fault' \/ pod = None THEN got
                              ELSE [got EXCEPT !["ui"] =
                                      LockVec_clone([data |-> pod.episodes])]
           ELSE IF color # "none" /\ selected > -1
           THEN /\ fault' = (el = None)
                /\ panel' = IF el = None THEN panel
                             ELSE set_attrs(panel, selected, is_played(el), color)
                /\ UNCHANGED <<items, header, start_row, top_row, selected, n_row, got>>
           ELSE UNCHANGED <<menuVars, panel, got>>
        /\ message' = IF key = "Sync" /\ pod_len > 0 THEN "Sync"
                      ELSE IF key \in {"Play", "Download"} /\ ep_len > 0 THEN key
                      ELSE IF key = "MarkPlayed" /\ active = "EpisodeMenu" /\ ep_len > 0
                      THEN key
                      ELSE "Noop"
        /\ last_op' = [op |-> "getch", lines |-> 0, selected |-> selected,
                       top_row |-> top_row, len |-> pod_len, panel |-> panel,
                       color |-> color, key |-> key, ep_len |-> ep_len,
                       active |-> active]
        /\ UNCHANGED <<storeVars, pc, local, ret, handle, histVars, envVars, surface,
                       rx_from_main, tx_to_main, inputs, taken, torn_down, sent,
                       processed, produced, received>>

\* The menu on its own thread, over a store another handle may cut short:
\* the menu's operations wait for the store's mutex, resize does not use it.
Next ==
    \/ holders[items.data] = {} /\ update_items
    \/ holders[items.data] = {} /\ scroll(1)
    \/ holders[items.data] = {} /\ scroll(-1)
    \/ \E rows \in PanelRows : resize(rows)
    \/ store_set_call("worker")
    \/ \E k \in 0..MaxLen : store_set_return("worker", k)

Spec == Init /\ [][Next]_vars

\* The menu under the keys of the UI and the highlight calls, in the
\* panels of one or two list rows, over a store another handle may empty.
NextKeys ==
    \/ holders[items.data] = {} /\ update_items
    \/ holders[items.data] = {} /\ scroll(1)
    \/ holders[items.data] = {} /\ scroll(-1)
    \/ \E color \in {"HighlightedActive", "Highlighted", "Normal"} :
          holders[items.data] = {} /\ highlight_selected(color)
    \/ \E key \in {"Down", "Up", "Left", "Right", "Play", "MarkPlayed", "Download", "Sync"},
          active \in {"PodcastMenu", "EpisodeMenu"}, ep_len \in 0..1 :
          getch_key(key, active, ep_len)
    \/ store_set_call("worker")
    \/ store_set_return("worker", 0)

\* Menu::new on a panel of at most two item rows
InitKeys == Init /\ n_row <= print_header + 2

SpecKeys == InitKeys /\ [][NextKeys]_vars

\* The rest of what a UI step of this specification leaves alone.
uiStepRest == <<heap, holders, ret, handle, histVars, uiVars, envVars, panel,
                last_op, ui, input_win>>

\* The panic of an unwrap on None: the thread stops where it is.
Panic(t) ==
    /\ fault' = TRUE
    /\ pc' = [pc EXCEPT ![t] = "panicked"]

\* getch: pod_len and current_pod_index, read under a guard that is dropped
\* at the end of the statement.
getch_lens ==
    /\ ~fault
    /\ pc["ui"] = "idle"
    /\ holders[items.data] = {}
    /\ pc' = [pc EXCEPT !["ui"] = "getch_match"]
    /\ local' = [local EXCEPT !["ui"] =
                  [NoLocal EXCEPT !.len = len(items), !.index = selected + top_row]]
    /\ UNCHANGED <<menuVars, got, uiStepRest>>

\* UserAction::Down / Up with the podcast menu active: scroll, then
\* get_episodes.
getch_scroll(lines) ==
    /\ pc["ui"] = "getch_match"
    /\ holders[items.data] = {}
    /\ IF local["ui"].len > 0
       THEN /\ scroll_body(lines)
            /\ pc' = [pc EXCEPT !["ui"] =
                       IF fault' THEN "panicked" ELSE "get_episodes"]
       ELSE /\ ~fault
            /\ pc' = [pc EXCEPT !["ui"] = "idle"]
            /\ UNCHANGED menuVars
    /\ UNCHANGED <<local, got, uiStepRest>>

\* get_episodes, first guard: the ID at the cursor's index in the order.
get_episodes_order ==
    /\ ~fault
    /\ pc["ui"] = "get_episodes"
    /\ holders[items.data] = {}
    /\ LET el == Get(Data(items), get_menu_idx(selected))
       IN  IF el = None
           THEN Panic("ui") /\ UNCHANGED local
           ELSE /\ pc' = [pc EXCEPT !["ui"] = "get_episodes_map"]
                /\ local' = [local EXCEPT !["ui"].index = el.id]
                /\ UNCHANGED fault
    /\ UNCHANGED <<items, header, start_row, top_row, selected, n_row, got, uiStepRest>>

\* get_episodes, second guard: the entity of that ID, and a clone of its
\* episodes handle.
get_episodes_map ==
    /\ ~fault
    /\ pc["ui"] = "get_episodes_map"
    /\ holders[items.data] = {}
    /\ LET at == position(Data(items), local["ui"].index)
       IN  IF at = None
           THEN Panic("ui") /\ UNCHANGED got
           ELSE /\ pc' = [pc EXCEPT !["ui"] = "update_items"]
                /\ got' = [got EXCEPT !["ui"] =
                            LockVec_clone([data |-> Get(Data(items), at.some).episodes])]
                /\ UNCHANGED fault
    /\ UNCHANGED <<items, header, start_row, top_row, selected, n_row, local, uiStepRest>>

\* UserAction::MarkAllPlayed: a second guard, indexed with the values read
\* under the first.
getch_mark_all_played ==
    /\ ~fault
    /\ pc["ui"] = "getch_match"
    /\ holders[items.data] = {}
    /\ IF local["ui"].len > 0 /\ Get(Data(items), local["ui"].index) = None
       THEN Panic("ui")
       ELSE pc' = [pc EXCEPT !["ui"] = "idle"] /\ UNCHANGED fault
    /\ UNCHANGED <<items, header, start_row, top_row, selected, n_row, local, got,
                   uiStepRest>>

\* UiUpdateMenus arriving while the UI thread is between two key presses.
ui_update_menus ==
    /\ pc["ui"] = "idle"
    /\ holders[items.data] = {}
    /\ update_items

NextRace ==
    \/ getch_lens
    \/ getch_scroll(1)
    \/ getch_scroll(-1)
    \/ get_episodes_order
    \/ get_episodes_map
    \/ select_update_items("ui")
    \/ getch_mark_all_played
    \/ ui_update_menus
    \/ store_set_call("worker")
    \/ \E k \in 0..MaxFeeds : store_set_return("worker", k)

SpecRace == InitStore /\ [][NextRace]_vars

\* ------------------------------------------- update_items, call by call
RenderCalls == {"erase", "write_line", "change_attr", "refresh"}

\* What a step of update_items leaves alone.
renderRest == <<heap, ret, handle, got, histVars, rx_from_main, tx_to_main,
                message, inputs, taken, torn_down, sent, processed, produced,
                received, envVars, panel, last_op, ui, input_win>>

\* self.panel.erase()
update_items_erase ==
    /\ ~fault
    /\ pc["ui"] = "idle"
    /\ surface' = "erase"
    /\ pc' = [pc EXCEPT !["ui"] = "update_items_header"]
    /\ UNCHANGED <<menuVars, holders, local, renderRest>>

\* self.start_row = self.print_header(), and the cursor kept below it
update_items_header ==
    /\ pc["ui"] = "update_items_header"
    /\ surface' = IF header THEN "write_line" ELSE "none"
    /\ start_row' = print_header
    /\ selected' = IF selected < print_header THEN print_header ELSE selected
    /\ pc' = [pc EXCEPT !["ui"] = "update_items_borrow"]
    /\ UNCHANGED <<items, header, top_row, n_row, fault, holders, local, renderRest>>

\* let (map, order) = self.items.borrow(), and the clamp of the cursor
update_items_borrow ==
    /\ pc["ui"] = "update_items_borrow"
    /\ borrow("ui", items)
    /\ surface' = "none"
    /\ selected' = update_items_selected(start_row)
    /\ local' = [local EXCEPT !["ui"] = [NoLocal EXCEPT !.index = start_row]]
    /\ pc' = [pc EXCEPT !["ui"] = "update_items_row"]
    /\ UNCHANGED <<items, header, start_row, top_row, n_row, fault, renderRest>>

\* One turn of the loop over the visible rows: write_line for row i, or the
\* refresh that follows the loop.
update_items_row ==
    /\ pc["ui"] = "update_items_row"
    /\ LET i == local["ui"].index
       IN  IF len(items) # 0 /\ i < n_row /\ Get(Data(items), get_menu_idx(i)) # None
           THEN /\ surface' = "write_line"
                /\ pc' = [pc EXCEPT !["ui"] = "update_items_attr"]
           ELSE /\ surface' = "refresh"
                /\ pc' = [pc EXCEPT !["ui"] = "update_items_return"]
    /\ UNCHANGED <<menuVars, holders, local, renderRest>>

\* self.panel.change_attr for row i
update_items_attr ==
    /\ pc["ui"] = "update_items_attr"
    /\ surface' = "change_attr"
    /\ local' = [local EXCEPT !["ui"].index = @ + 1]
    /\ pc' = [pc EXCEPT !["ui"] = "update_items_row"]
    /\ UNCHANGED <<menuVars, holders, renderRest>>

\* The end of the function drops map and order.
update_items_return ==
    /\ pc["ui"] = "update_items_return"
    /\ drop_guard("ui", items)
    /\ surface' = "none"
    /\ local' = [local EXCEPT !["ui"] = NoLocal]
    /\ pc' = [pc EXCEPT !["ui"] = "idle"]
    /\ UNCHANGED <<menuVars, renderRest>>

\* The cursor moving between two repaints.
ui_scroll(lines) ==
    /\ pc["ui"] = "idle"
    /\ holders[items.data] = {}
    /\ scroll_body(lines)
    /\ surface' = "none"
    /\ UNCHANGED <<holders, pc, local, renderRest>>

InitRender ==
    /\ \E n \in 0..MaxLen : heap = [r \in Refs |-> IF r = FeedRef THEN TestItems(n) ELSE <<>>]
    /\ holders = [r \in Refs |-> {}]
    /\ ThreadsAtRest
    /\ UiAtRest
    /\ items = LockVec_clone(LockVec_new(FeedRef))
    /\ header \in BOOLEAN
    /\ n_row = MaxRows - 1
    /\ top_row = 0
    /\ fault = FALSE
    /\ start_row = print_header
    /\ selected = print_header
    /\ panel = update_items_panel(start_row)

NextRender ==
    \/ update_items_erase
    \/ update_items_header
    \/ update_items_borrow
    \/ update_items_row
    \/ update_items_attr
    \/ update_items_return
    \/ ui_scroll(1)
    \/ ui_scroll(-1)
    \/ \E index \in 0..1 :
         replace_call("worker", handle["worker"], index,
                      ReplaceArg(Data(handle["worker"]), index))
    \/ replace_return("worker")

SpecRender == InitRender /\ [][NextRender]_vars

\* -------------------------------------------------------- the UI loop
Directives == {"UiUpdateMenus", "UiSpawnMsgWin", "UiTearDown"}
Keys == {"none", "Down", "Up", "Sync", "Quit", "AddFeed"}
InputKeys == {"char", "enter", "esc"}

\* What a step of the loop leaves alone in the store and its threads.
loopRest == <<heap, holders, local, ret, handle, got, histVars, surface,
              poisoned, other_painters, panel, last_op, ui, input_win>>

\* A loop that takes every pending directive before it sleeps.
recv_next_pc_drains(msg) == IF msg = "UiTearDown" THEN "done" ELSE "recv"

\* Where the loop goes after a directive: break on UiTearDown, else on to
\* the sleep that ends the iteration.
recv_next_pc(msg) == IF msg = "UiTearDown" THEN "done" ELSE "sleep"

\* An iterator that yields the newest pending directive.
message_iter_next_newest(rx) ==
    IF rx = <<>> THEN [msg |-> None, rest |-> rx]
    ELSE [msg |-> Some(rx[Len(rx)]), rest |-> SubSeq(rx, 1, Len(rx) - 1)]

\* rx_from_main.try_iter().next(): the oldest pending directive, or None
\* without waiting.
message_iter_next(rx) ==
    IF rx = <<>> THEN [msg |-> None, rest |-> rx]
    ELSE [msg |-> Some(Head(rx)), rest |-> Tail(rx)]

\* The UiMsg getch returns for a key that opens no window.
getch_msg(key) ==
    IF key = "Quit" THEN "Quit"
    ELSE IF key = "Sync" /\ len(items) > 0 THEN "Sync"
    ELSE "Noop"

\* ui.getch() for a pending key, or for none.
ui_getch(key) ==
    /\ ~fault
    /\ pc["ui"] = "getch"
    /\ IF key \in {"Down", "Up"} /\ len(items) > 0
       THEN scroll_body(IF key = "Down" THEN 1 ELSE -1)
       ELSE UNCHANGED menuVars
    /\ IF key = "AddFeed"
       THEN /\ Len(produced) < MaxIntents
            /\ pc' = [pc EXCEPT !["ui"] = "spawn_input_win"]
            /\ inputs' = 0
            /\ UNCHANGED <<message, produced>>
       ELSE /\ getch_msg(key) # "Noop" => Len(produced) < MaxIntents
            /\ pc' = [pc EXCEPT !["ui"] = IF fault' THEN "panicked" ELSE "send"]
            /\ message' = getch_msg(key)
            /\ produced' = IF getch_msg(key) = "Noop" THEN produced
                           ELSE Append(produced, getch_msg(key))
            /\ UNCHANGED inputs
    /\ UNCHANGED <<msg_wins, loopRest, rx_from_main, tx_to_main, taken, torn_down, sent,
                   processed, received>>

\* spawn_input_win: one key read by input_win.getch(), which waits for it.
ui_input_key(k) ==
    /\ pc["ui"] = "spawn_input_win"
    /\ IF k = "char"
       THEN /\ inputs < MaxInput
            /\ inputs' = inputs + 1
            /\ UNCHANGED <<pc, message, produced>>
       ELSE LET url == IF k = "enter" THEN inputs ELSE 0
                msg == IF url # 0 THEN "AddFeed" ELSE "Noop"
            IN  /\ message' = msg
                /\ produced' = IF msg = "Noop" THEN produced ELSE Append(produced, msg)
                /\ pc' = [pc EXCEPT !["ui"] = "send"]
                /\ UNCHANGED inputs
    /\ UNCHANGED <<msg_wins, menuVars, loopRest, rx_from_main, tx_to_main, taken, torn_down,
                   sent, processed, received>>

\* match ui.getch() { Noop => (), input => tx_to_main.send(input) }
ui_send ==
    /\ pc["ui"] = "send"
    /\ tx_to_main' = IF message = "Noop" THEN tx_to_main
                     ELSE Append(tx_to_main, message)
    /\ pc' = [pc EXCEPT !["ui"] = "recv"]
    /\ UNCHANGED <<msg_wins, menuVars, loopRest, rx_from_main, message, inputs, taken,
                   torn_down, sent, processed, produced, received>>

\* if let Some(message) = message_iter.next() { ... }
ui_recv ==
    /\ pc["ui"] = "recv"
    /\ LET next == message_iter_next(rx_from_main)
       IN  IF next.msg = None
           THEN /\ pc' = [pc EXCEPT !["ui"] = "sleep"]
                /\ UNCHANGED <<menuVars, rx_from_main, taken, torn_down, processed,
                               msg_wins>>
           ELSE /\ rx_from_main' = next.rest
                /\ taken' = taken + 1
                /\ processed' = Append(processed, next.msg.some)
                /\ pc' = [pc EXCEPT !["ui"] = recv_next_pc(next.msg.some)]
                /\ IF next.msg.some = "UiUpdateMenus"
                   THEN update_items_body
                   ELSE UNCHANGED menuVars
                /\ torn_down' = IF next.msg.some = "UiTearDown"
                                THEN torn_down + 1 ELSE torn_down
                /\ msg_wins' = IF next.msg.some = "UiSpawnMsgWin"
                               THEN [msg_wins EXCEPT !.spawned = @ + 1] ELSE msg_wins
    /\ UNCHANGED <<loopRest, tx_to_main, message, inputs, sent, produced, received>>

\* thread::sleep, then the next iteration
ui_sleep ==
    /\ pc["ui"] = "sleep"
    /\ pc' = [pc EXCEPT !["ui"] = "getch"]
    /\ taken' = 0
    /\ UNCHANGED <<msg_wins, menuVars, loopRest, rx_from_main, tx_to_main, message, inputs,
                   torn_down, sent, processed, produced, received>>

\* The controller sends a directive; its receiver is gone once the UI
\* thread has ended.
main_send(d) ==
    /\ Len(sent) < MaxDirectives
    /\ pc["ui"] # "done"
    /\ rx_from_main' = Append(rx_from_main, d)
    /\ sent' = Append(sent, d)
    /\ UNCHANGED <<msg_wins, menuVars, loopRest, pc, tx_to_main, message, inputs, taken,
                   torn_down, processed, produced, received>>

\* The controller receives the oldest intent.
main_recv ==
    /\ tx_to_main # <<>>
    /\ received' = Append(received, Head(tx_to_main))
    /\ tx_to_main' = Tail(tx_to_main)
    /\ UNCHANGED <<msg_wins, menuVars, loopRest, pc, rx_from_main, message, inputs, taken,
                   torn_down, sent, processed, produced>>

\* UI::spawn: UI::new, then the loop at its first getch.
InitLoop ==
    /\ \E n \in 0..MaxFeeds : heap = [r \in Refs |-> IF r = FeedRef THEN TestItems(n) ELSE <<>>]
    /\ holders = [r \in Refs |-> {}]
    /\ pc = [t \in Threads |-> IF t = "ui" THEN "getch" ELSE "idle"]
    /\ local = [t \in Threads |-> NoLocal]
    /\ ret = [t \in Threads |-> NoRet]
    /\ handle = [t \in Threads |-> LockVec_new(FeedRef)]
    /\ got = [t \in Threads |-> None]
    /\ store0 = <<>>
    /\ flipped = <<>>
    /\ toggled = <<>>
    /\ lastWrite = None
    /\ UiAtRest
    /\ items = LockVec_clone(LockVec_new(FeedRef))
    /\ header = FALSE
    /\ n_row = MaxRows
    /\ start_row = 0
    /\ top_row = 0
    /\ selected = 0
    /\ fault = FALSE
    /\ panel = update_items_panel(start_row)

\* The steps the UI thread takes on its own once it is scheduled.
UiStep ==
    \/ \E key \in Keys : ui_getch(key)
    \/ ui_send
    \/ ui_recv
    \/ ui_sleep

NextLoop ==
    \/ \E key \in Keys : ui_getch(key)
    \/ \E k \in InputKeys : ui_input_key(k)
    \/ ui_send
    \/ ui_recv
    \/ ui_sleep
    \/ \E d \in Directives : main_send(d)
    \/ main_recv

SpecLoop == InitLoop /\ [][NextLoop]_vars

\* The UI thread keeps being scheduled; nothing obliges the user to type.
SpecLoopFair == SpecLoop /\ WF_vars(UiStep)

\* ------------------------------------------ the UI loop and a poisoned lock
\* A thread panics inside a guard scope it took with borrow(): the unwinding
\* drops the guard and marks the mutex poisoned.
panic_in_guard(t) ==
    /\ pc[t] = "store_set"
    /\ pc' = [pc EXCEPT ![t] = "panicked"]
    /\ poisoned' = [poisoned EXCEPT ![local[t].h.data] = TRUE]
    /\ drop_guard(t, local[t].h)
    /\ UNCHANGED <<heap, local, ret, handle, got, histVars, menuVars, uiVars,
                   msg_wins, other_painters, panel, last_op, ui, input_win>>

\* LockVec::borrow on a poisoned mutex: lock() returns Err and unwrap panics.
borrow_panics(h) == poisoned[h.data]

\* getch for a pending key: pod_len is read with items.borrow() first.
ui_getch_key(key) ==
    /\ key # "none"
    /\ pc["ui"] = "getch"
    /\ holders[items.data] = {}
    /\ IF borrow_panics(items)
       THEN /\ ~fault
            /\ Panic("ui")
            /\ UNCHANGED <<items, header, start_row, top_row, selected, n_row,
                           local, got, uiStepRest>>
       ELSE ui_getch(key)

\* The directive step of the loop: update_menus takes the guard in
\* update_items.
ui_recv_borrow ==
    /\ pc["ui"] = "recv"
    /\ LET next == message_iter_next(rx_from_main)
       IN  IF next.msg = Some("UiUpdateMenus")
           THEN /\ holders[items.data] = {}
                /\ IF borrow_panics(items)
                   THEN /\ Panic("ui")
                        /\ rx_from_main' = next.rest
                        /\ taken' = taken + 1
                        /\ processed' = Append(processed, next.msg.some)
                        /\ UNCHANGED <<items, header, start_row, top_row, selected,
                                       n_row, loopRest, tx_to_main, message, inputs,
                                       sent, produced, received, torn_down, msg_wins>>
                   ELSE ui_recv
           ELSE ui_recv

NextPoison ==
    \/ ui_getch("none")
    \/ \E key \in {"Down", "Quit"} : ui_getch_key(key)
    \/ ui_send
    \/ ui_recv_borrow
    \/ ui_sleep
    \/ \E d \in Directives : main_send(d)
    \/ main_recv
    \/ store_set_call("worker")
    \/ \E k \in 0..MaxFeeds : store_set_return("worker", k)
    \/ panic_in_guard("worker")

SpecPoison == InitLoop /\ [][NextPoison]_vars

\* ------------------------------------------- the message-window threads
\* Who makes a terminal call from a thread spawned by spawn_msg_win.
msg_painter == IF torn_down > 0 THEN "msg_win_after_tear_down" ELSE "msg_win"

msgRest == <<menuVars, storeVars, threadVars, histVars, uiVars, poisoned, panel,
            last_op, ui, input_win>>

\* The spawned thread up to its sleep: newwin, mv, attrset, addstr, refresh.
msg_win_show ==
    /\ msg_wins.spawned > 0
    /\ msg_wins' = [spawned |-> msg_wins.spawned - 1, shown |-> msg_wins.shown + 1]
    /\ other_painters' = other_painters \cup {msg_painter}
    /\ UNCHANGED msgRest

\* The spawned thread after its sleep: erase, refresh, delwin.
msg_win_erase ==
    /\ msg_wins.shown > 0
    /\ msg_wins' = [msg_wins EXCEPT !.shown = @ - 1]
    /\ other_painters' = other_painters \cup {msg_painter}
    /\ UNCHANGED msgRest

NextMsgWin ==
    \/ \E key \in {"none", "Down"} : ui_getch(key)
    \/ ui_send
    \/ ui_recv
    \/ ui_sleep
    \/ \E d \in Directives : main_send(d)
    \/ msg_win_show
    \/ msg_win_erase

SpecMsgWin == InitLoop /\ [][NextMsgWin]_vars

\* ------------------------------------------------ a key held down
\* The user scrolls freely, then holds the Down or the Up key: from then on
\* every step is the same scroll.
hold_key(dir) ==
    /\ ~fault
    /\ pc["ui"] = "idle"
    /\ pc' = [pc EXCEPT !["ui"] = dir]
    /\ UNCHANGED <<menuVars, storeVars, local, ret, handle, got, histVars, uiVars,
                   envVars, panel, last_op, ui, input_win>>

repeat_down ==
    /\ pc["ui"] = "repeat_down"
    /\ scroll(1)

repeat_up ==
    /\ pc["ui"] = "repeat_up"
    /\ scroll(-1)

NextRepeat ==
    \/ pc["ui"] = "idle" /\ scroll(1)
    \/ pc["ui"] = "idle" /\ scroll(-1)
    \/ hold_key("repeat_down")
    \/ hold_key("repeat_up")
    \/ repeat_down
    \/ repeat_up

SpecRepeat ==
    Init /\ [][NextRepeat]_vars /\ WF_vars(repeat_down) /\ WF_vars(repeat_up)

\* ------------------------------------------------------------- claims
\* C1: after any sequence of scroll(+1), scroll(-1) and resize calls on a
\* non-empty store, top_row + (selected - start_row) is a valid absolute
\* index: at least 0 and below the store's length.
C1_AbsIndexValid ==
    len(items) > 0 =>
        /\ get_menu_idx(selected) >= 0
        /\ get_menu_idx(selected) < len(items)

\* C2: after any sequence of store operations through any number of handles,
\* no ID occurs twice in the feed store's order and the IDs present are the
\* IDs the store was constructed with; replace introduces no duplicate ID
\* and changes no ID.
C2_IdsKept ==
    LET vec == heap[FeedRef]
    IN  /\ \A i, j \in 1..Len(vec) : vec[i].id = vec[j].id => i = j
        /\ {vec[i].id : i \in 1..Len(vec)} = {store0[i].id : i \in 1..Len(store0)}

\* C3: at most one thread is inside a store's guard scope, and a thread
\* that is not inside a store operation holds no guard: every operation
\* drops it on its Ok / Some return and on its Err / None return.
InGuard ==
    {"replace", "clone_podcast", "id_to_index", "clone_episode",
     "clone_episode_inner", "ep_clone_episode", "change_item_selections"}

C3_LockScoped ==
    \A r \in Refs :
        /\ Cardinality(holders[r]) <= 1
        /\ \A t \in holders[r] : pc[t] \in InGuard

\* C3 witness: a replace has returned Err, its thread is idle and holds
\* nothing, while the other thread is inside the feed store's guard.
C3_Witness ==
    /\ ret["worker"] = [op |-> "replace", ok |-> FALSE]
    /\ pc["worker"] = "idle"
    /\ \A r \in Refs : "worker" \notin holders[r]
    /\ holders[FeedRef] = {"ui"}

\* C4: with two threads mutating disjoint positions in any interleaving,
\* the feed store keeps its length and ID sequence, every applied mutation
\* is present at its position, and no other field or position is altered.
C4_DisjointMutations ==
    LET vec == heap[FeedRef]
    IN  /\ Len(vec) = Len(store0)
        /\ \A i \in 1..Len(store0) :
            /\ vec[i].id = store0[i].id
            /\ vec[i].episodes = store0[i].episodes
            /\ vec[i].played = (store0[i].played # flipped[i])
            /\ vec[i].selected = (store0[i].selected # toggled[i])

\* C4 witness: both threads have applied a mutation, and the worker is
\* between the read and the write of another one while the UI thread is
\* inside its own.
C4_Witness ==
    /\ Len(store0) >= 2
    /\ toggled[1]
    /\ flipped[2]
    /\ got["worker"] # None
    /\ pc["worker"] = "idle"
    /\ pc["ui"] = "change_item_selections"

\* C5: every handle obtained by cloning refers to the same collection: once
\* a replace has completed, a read that starts afterwards through any
\* handle (a thread's or the menu's) finds the written entity.
C5_WritesVisible ==
    lastWrite # None =>
        \A h \in {handle[t] : t \in Threads} \cup {items} :
            holders[h.data] = {} =>
                Get(Data(h), lastWrite.index) = lastWrite.ent

\* C5 witness: the UI thread's clone_podcast returned the entity the worker
\* wrote, and the menu's handle reads it too.
C5_Witness ==
    /\ lastWrite # None
    /\ lastWrite.by = "worker"
    /\ got["ui"] = [index |-> lastWrite.index, val |-> lastWrite.ent]
    /\ Get(Data(items), lastWrite.index) = lastWrite.ent
    /\ lastWrite.ent # store0[lastWrite.index + 1]

\* C6: no operation of the UI thread faults when the worker removes
\* entities from the store between two of the UI thread's guards, or
\* between the last repaint and the operation.
C6_NoUiFault == ~fault

\* C7: the UI thread holds no store guard while it executes a
\* rendering-surface call (erase, write_line, change_attr, refresh).
C7_NoGuardWhileRendering ==
    surface \in RenderCalls => \A r \in Refs : "ui" \notin holders[r]

\* C8: in one iteration of the UI loop at most one directive is removed
\* from the controller's channel, however many are pending.
C8_OneDirectivePerIteration == taken <= 1

\* C8 witness: the iteration has processed its directive and gone to sleep
\* with another directive still pending.
C8_Witness ==
    /\ pc["ui"] = "sleep"
    /\ taken = 1
    /\ Len(rx_from_main) >= 1

\* C9: the loop processes the directives in the order the controller sent
\* them, none skipped or duplicated, up to the tear-down; the controller
\* receives the intents in the order getch returned them, and no Noop is
\* sent.
C9_ChannelOrder ==
    /\ processed \o rx_from_main = sent
    /\ \A i \in 1..Len(processed) : processed[i] = "UiTearDown" => i = Len(processed)
    /\ received \o tx_to_main \o
         (IF pc["ui"] = "send" /\ message # "Noop" THEN <<message>> ELSE <<>>) = produced
    /\ \A i \in 1..Len(tx_to_main) : tx_to_main[i] # "Noop"
    /\ \A i \in 1..Len(received) : received[i] # "Noop"

\* C9 witness: two different directives processed and two different
\* intents received, after a tear-down that left a later directive
\* unprocessed.
C9_Witness ==
    /\ Len(processed) = 2
    /\ processed[1] # processed[2]
    /\ processed[2] = "UiTearDown"
    /\ Len(rx_from_main) = 1
    /\ Len(received) = 2
    /\ received[1] # received[2]

\* C10: once the controller has sent the tear-down directive, the loop
\* eventually processes it, calls tear_down exactly once and ends.
TearDownSent == \E i \in 1..Len(sent) : sent[i] = "UiTearDown"

C10_TearDownCompletes ==
    TearDownSent ~> (pc["ui"] = "done" /\ torn_down = 1)

\* C11: every iteration of the UI loop completes without waiting for the
\* user: from its getch the loop always reaches its sleep (or its end)
\* whatever key was read.
C11_IterationCompletes ==
    (pc["ui"] = "getch") ~> (pc["ui"] \in {"sleep", "done"})

\* C12: when a thread has panicked inside a store's guard scope, the UI
\* thread does not end without tear_down having run.
C12_TearDownOnPoison ==
    (pc["ui"] \in {"panicked", "done"} /\ \E r \in Refs : poisoned[r])
        => torn_down >= 1

\* C13: no thread other than the UI thread ever makes a terminal call,
\* neither while the UI loop runs nor after tear_down.
C13_OnlyUiThreadPaints == other_painters = {}

\* C14: after any sequence of init, update_items, scroll and resize calls
\* top_row is at least 0 and at most max(0, length - visible_rows).
visible_rows == n_row - start_row

C14_TopRowInRange ==
    /\ top_row >= 0
    /\ top_row <= (IF len(items) - visible_rows > 0
                   THEN len(items) - visible_rows ELSE 0)

\* C15: on a non-empty store the cursor's screen row stays between
\* start_row and the panel's last row.
C15_SelectedInRange ==
    len(items) > 0 => (start_row <= selected /\ selected <= n_row - 1)

\* C16: on a store longer than the viewport, with or without a header,
\* repeated scroll(+1) reaches and stays at selected = last panel row,
\* top_row = length - visible_rows with the cursor on the last entity;
\* repeated scroll(-1) reaches and stays at top_row = 0, selected =
\* start_row.
C16_ScrollStabilises ==
    /\ [](pc["ui"] = "repeat_down" /\ len(items) > visible_rows
            => <>[](/\ selected = n_row - 1
                    /\ top_row = len(items) - visible_rows
                    /\ get_menu_idx(selected) = len(items) - 1))
    /\ [](pc["ui"] = "repeat_up" /\ len(items) > visible_rows
            => <>[](top_row = 0 /\ selected = start_row))

\* C17: on a non-empty store scroll(+1) moves the cursor's absolute index
\* up by exactly 1 unless it is on the last entity, scroll(-1) moves it down
\* by exactly 1 unless it is on the first, and in each call at most one of
\* selected and top_row changes, by exactly 1.
C17_ScrollMovesByOne ==
    (last_op.op = "scroll" /\ last_op.len > 0) =>
        LET before == get_menu_idx_of(last_op.top_row, last_op.selected, start_row)
            edge == IF last_op.lines = 1 THEN last_op.len - 1 ELSE 0
        IN  /\ get_menu_idx(selected) =
                  (IF before = edge THEN before ELSE before + last_op.lines)
            /\ \/ selected = last_op.selected /\ top_row = last_op.top_row
               \/ selected = last_op.selected /\ top_row - last_op.top_row \in {-1, 1}
               \/ top_row = last_op.top_row /\ selected - last_op.selected \in {-1, 1}

\* C18: after a scroll that moved the window, every list row shows the
\* title of the entity at top_row + row - start_row, which is what
\* update_items would paint in the same state, with or without a header.
C18_IncrementalRepaint ==
    (last_op.op = "scroll" /\ top_row # last_op.top_row) =>
        \A y \in start_row..(n_row - 1) :
            panel[y].text = update_items_panel(start_row)[y].text

\* C19: after a scroll on a non-empty store the cursor's row is the only
\* row with the active-highlight palette, the row selected before (where it
\* is now) has the normal palette, and each of the two is bold exactly when
\* the entity whose title it shows is unplayed.
C19_ScrollStyles ==
    (last_op.op = "scroll" /\ last_op.len > 0 /\ ~fault) =>
        LET old == last_op.selected + last_op.top_row - top_row
        IN  /\ \A y \in DOMAIN panel :
                   panel[y].color = "HighlightedActive" <=> y = selected
            /\ (old \in DOMAIN panel /\ old # selected) => panel[old].color = "Normal"
            /\ \A y \in {selected, old} \cap start_row..(n_row - 1) :
                   \A i \in 1..len(items) :
                       panel[y].text = get_title(Data(items)[i]) =>
                           (panel[y].attr = "A_BOLD" <=> ~is_played(Data(items)[i]))

\* C20: update_items on a store that shrank below the cursor's absolute
\* index puts the cursor on the new last entity without moving selected
\* below start_row, also when top_row is past the new end; with the index
\* still in range it leaves selected and top_row as they were.
C20_ClampAfterShrink ==
    (last_op.op = "update_items" /\ last_op.len > 0) =>
        IF get_menu_idx_of(last_op.top_row, last_op.selected, start_row) >= last_op.len
        THEN /\ get_menu_idx(selected) = last_op.len - 1
             /\ selected >= start_row
        ELSE selected = last_op.selected /\ top_row = last_op.top_row

\* C21: resize keeps the entity under the cursor: the absolute index
\* top_row + selected - start_row is the same before and after; when the
\* cursor's row is past the new last row, selected becomes the last row and
\* top_row advances by the difference; otherwise both are unchanged.
C21_ResizeKeepsEntity ==
    last_op.op = "resize" =>
        /\ get_menu_idx(selected) =
              get_menu_idx_of(last_op.top_row, last_op.selected, start_row)
        /\ IF last_op.selected > n_row - 1
           THEN /\ selected = n_row - 1
                /\ top_row = last_op.top_row + (last_op.selected - (n_row - 1))
           ELSE selected = last_op.selected /\ top_row = last_op.top_row

\* C21 witness: a resize to fewer rows than the cursor's row needed, on a
\* window that had already moved.
C21_Witness ==
    /\ last_op.op = "resize"
    /\ last_op.selected > n_row - 1
    /\ last_op.top_row > 0
    /\ len(items) > 0

\* C22: whenever the store is empty after init or update_items, selected
\* holds the "none" sentinel, which is not a row of the panel (the next
\* update_items on a store that has become non-empty then sets a valid row).
C22_EmptySentinel ==
    (/\ last_op.op \in {"new", "update_items"}
     /\ len(items) = 0
     /\ last_op.len = 0) =>
        selected \notin 0..(n_row - 1)

C24_HighlightByEntity ==
    (/\ last_op.op \in {"highlight_selected", "getch"}
     /\ last_op.color # "none"
     /\ last_op.len = len(items)
     /\ map_single_by_index(items, get_menu_idx(selected)) # None) =>
        panel = set_attrs(last_op.panel, selected,
                          is_played(map_single_by_index(items, get_menu_idx(selected))),
                          last_op.color)

\* C25: on a non-empty feed store get_episodes returns a handle to the
\* sub-store of the feed at the cursor's absolute index top_row + selected
\* - start_row: the handle refers to that feed's sub-store, and to no other
\* feed's.
C25_EpisodesOfCursor ==
    (/\ last_op.op = "getch"
     /\ last_op.key \in {"Down", "Up"}
     /\ last_op.active = "PodcastMenu"
     /\ last_op.len > 0
     /\ last_op.len = len(items)
     /\ got["ui"] # None
     /\ ~fault) =>
        \A i \in 1..len(items) :
            got["ui"].data = Data(items)[i].episodes <=> i - 1 = get_menu_idx(selected)

\* C25 witness: get_episodes after a scroll that moved the window.
C25_Witness ==
    /\ last_op.op = "getch"
    /\ last_op.key = "Down"
    /\ last_op.active = "PodcastMenu"
    /\ last_op.len = len(items)
    /\ got["ui"] # None
    /\ ~fault
    /\ top_row > 0
    /\ top_row # last_op.top_row

\* C26: select_item inverts the selected-for-action flag of the entity at
\* the cursor's absolute index and nothing else: the other entities, the
\* other fields, the order, the length, top_row and selected stay; so a
\* second call restores the flags.
C26_SelectItemFrame ==
    [][/\ (pc["ui"] = "change_item_selections" /\ local["ui"].selection = None) =>
            /\ Len(heap'[items.data]) = len(items)
            /\ \A i \in 1..len(items) :
                  heap'[items.data][i] =
                      IF i - 1 = get_menu_idx(selected)
                      THEN [Data(items)[i] EXCEPT !.selected = ~@]
                      ELSE Data(items)[i]
            /\ top_row' = top_row
            /\ selected' = selected
       /\ pc["ui"] = "update_items" =>
            /\ heap' = heap
            /\ top_row' = top_row
            /\ selected' = selected]_vars

\* C26 witness: select_item has returned a second time, with the cursor
\* below the first entity of a window that had moved.
C26_Witness ==
    /\ ret["ui"] = [op |-> "change_item_selections", ok |-> TRUE]
    /\ pc["ui"] = "idle"
    /\ top_row > 0
    /\ get_menu_idx(selected) > 0
    /\ \A i \in 1..len(items) : ~Data(items)[i].selected

\* C27: select_all_items is a unanimous toggle: with at least one flag false
\* before the call every flag is true after it, with every flag true (store
\* non-empty) every flag is false after it, never a flip per item.
C27_UnanimousToggle ==
    [][(pc["ui"] = "change_item_selections" /\ local["ui"].selection # None) =>
          /\ (\E i \in 1..len(items) : ~Data(items)[i].selected) =>
                \A i \in 1..len(items) : heap'[items.data][i].selected
          /\ (len(items) > 0 /\ \A i \in 1..len(items) : Data(items)[i].selected) =>
                \A i \in 1..len(items) : ~heap'[items.data][i].selected
          /\ Len(heap'[items.data]) = len(items)]_vars

\* C27 witness: select_all_items has returned on a store of several
\* entities that are now all selected, the cursor not on the first.
C27_Witness ==
    /\ ret["ui"] = [op |-> "change_item_selections", ok |-> TRUE]
    /\ pc["ui"] = "idle"
    /\ len(items) > 1
    /\ get_menu_idx(selected) > 0
    /\ \A i \in 1..len(items) : Data(items)[i].selected

C29_ReplaceFrame ==
    [][\A t \in Threads :
          (pc[t] = "replace" /\ pc'[t] = "idle") =>
              LET l == local[t]
                  old == Data(l.h)
                  new == heap'[l.h.data]
              IN  /\ Len(new) = Len(old)
                  /\ \A i \in 1..Len(old) :
                        (i # l.index + 1 \/ ~ret'[t].ok) => new[i] = old[i]
                  /\ \A r \in Refs : r # l.h.data => heap'[r] = heap[r]
                  /\ t \notin holders'[l.h.data]
                  /\ fault' = fault]_vars

\* C29 witness: a replace past the end of a store of several entities was
\* refused, the store's guard is free and the other thread is inside a later
\* operation on the same store.
C29_Witness ==
    /\ ret["worker"] = [op |-> "replace", ok |-> FALSE]
    /\ pc["worker"] = "idle"
    /\ len(handle["worker"]) > 1
    /\ pc["ui"] = "clone_podcast"
    /\ holders[handle["worker"].data] = {"ui"}

\* C30: in every store, for every ID present get-by-position at
\* id_to_index(ID) gives an entity with that ID, and for every valid position
\* n id_to_index of the ID of the entity at n gives n; id_to_index of an ID
\* not present gives 'not found', and so does get-by-position at any
\* n >= length, without a fault.
C30_RoundTrip ==
    /\ ~fault
    /\ \A r \in Refs :
          /\ \A i \in 1..Len(heap[r]) :
                LET found == position(heap[r], heap[r][i].id)
                IN  /\ found # None
                    /\ Get(heap[r], found.some).id = heap[r][i].id
                    /\ found.some = i - 1
          /\ \A id \in 0..(SpareId + 1) :
                (\A i \in 1..Len(heap[r]) : heap[r][i].id # id) =>
                    position(heap[r], id) = None
          /\ \A n \in Len(heap[r])..(MaxFeeds + 1) : Get(heap[r], n) = None

\* C35: substring(start, len) returns exactly the characters at positions
\* [start, min(start + len, character count)) and its byte range begins and
\* ends on character boundaries, so a character of several bytes is wholly
\* in or wholly out; substring(0, w) is the first min(w, count) characters.
C35_SubstringOnBoundaries ==
    last_op.op = "substring" =>
        LET s == last_op.s
            first == min(last_op.start, Len(s))
            last == min(last_op.start + last_op.length, Len(s))
            \* the characters whose bytes all lie in the returned byte range
            whole == {i \in 1..Len(s) :
                        /\ utf8_len(s, i - 1) >= last_op.out.byte_start
                        /\ utf8_len(s, i) <= last_op.out.byte_end}
        IN  /\ \E i \in 0..Len(s) : utf8_len(s, i) = last_op.out.byte_start
            /\ \E i \in 0..Len(s) : utf8_len(s, i) = last_op.out.byte_end
            /\ whole = {i \in 1..Len(s) : i - 1 >= first /\ i - 1 < last}
            /\ last_op.out.byte_end - last_op.out.byte_start =
                 utf8_len(s, IF last > first THEN last ELSE first) - utf8_len(s, first)
            /\ (last_op.start = 0 /\ last > 0) =>
                 /\ last_op.out.byte_start = 0
                 /\ last_op.out.byte_end = utf8_len(s, min(last_op.length, Len(s)))

\* C35 witness: a substring that starts after a character of several bytes
\* and stops before another one.
C35_Witness ==
    /\ last_op.op = "substring"
    /\ Len(last_op.s) = 3
    /\ last_op.s[1].n = 2
    /\ last_op.s[3].n = 4
    /\ last_op.start = 1
    /\ last_op.length = 1
    /\ last_op.out.byte_start = 2
    /\ last_op.out.byte_end > 2

\* C33: for every feed and every item (downloaded or not, with or without
\* publish date), every title length and every width budget w >= 0, the
\* string get_title(w) returns has at most w characters.
C33_TitleFitsBudget ==
    last_op.op \in {"Podcast::get_title", "Episode::get_title"} =>
        /\ ~last_op.out.panic
        /\ last_op.out.label + last_op.out.pad + last_op.out.meta <= last_op.length

\* C34: get_title is total: for every width budget w >= 0 (w < 4 for a
\* downloaded item included) and every title length, no usize subtraction
\* of the truncation length or of the padding width goes below zero, and
\* at a width too small for the metadata the result is the bare truncated
\* label.
C34_TitleTotal ==
    last_op.op \in {"Podcast::get_title", "Episode::get_title"} =>
        /\ ~last_op.out.below
        /\ ~last_op.out.panic
        /\ last_op.length <= EPISODE_DURATION_LENGTH /\ last_op.op = "Episode::get_title" =>
              last_op.out.pad = 0 /\ last_op.out.meta = 0

\* C31: processing the refresh directive is idempotent: with no store change
\* and no user input since the menu was last refreshed, refreshing it again
\* leaves top_row, selected, start_row and the content and style of every
\* screen row as the first refresh left them.
C31_RefreshIdempotent ==
    [][(/\ last_op.op = "update_items"
        /\ last_op.len = len(items)
        /\ last_op'.op = "update_items") =>
            /\ top_row' = top_row
            /\ selected' = selected
            /\ start_row' = start_row
            /\ panel' = panel]_vars

\* C31 witness: a menu whose window had moved was refreshed twice with the
\* same store, the second refresh finding the cursor where it left it.
C31_Witness ==
    /\ last_op.op = "update_items"
    /\ last_op.len = len(items)
    /\ last_op.len > 0
    /\ last_op.selected = selected
    /\ last_op.top_row = top_row
    /\ top_row > 0
    /\ selected > start_row
    /\ panel = update_items_panel(start_row)

\* C37: after a refresh directive is processed while the menu's store is
\* non-empty, the cursor row of the active menu carries the active-highlight
\* palette.
C37_RefreshKeepsHighlight ==
    (last_op.op = "update_items" /\ len(items) > 0 /\ holders[items.data] = {}) =>
        /\ selected \in DOMAIN panel
        /\ panel[selected].color = "HighlightedActive"

\* C40: in the text-input prompt, after any sequence of character,
\* backspace, delete, left and right keys, min_x <= cursor_x <= current_x,
\* the buffer has current_x - min_x characters and equals the text shown
\* after the prefix, no removal is attempted outside the buffer; completing
\* returns the buffer, and cancelling returns the empty string, for which no
\* add-feed intent is emitted.
C40_InputLineConsistent ==
    (input_win # [open |-> FALSE]) =>
        /\ ~input_win.panic
        /\ input_win.min_x <= input_win.cursor_x
        /\ input_win.cursor_x <= input_win.current_x
        /\ Len(input_win.inputs) = input_win.current_x - input_win.min_x
        /\ input_win.inputs =
             SubSeq(input_win.line, input_win.min_x + 1, Len(input_win.line))
        /\ input_win.returned # None =>
             /\ input_win.returned.some \in {<<>>, input_win.inputs}
             /\ (message = "AddFeed") = (input_win.returned.some # <<>>)

\* C32: every position-carrying intent getch emits carries the absolute
\* index under the feed menu's cursor and, where it has one, the absolute
\* index under the item menu's cursor, each smaller than the length of its
\* store when the intent is emitted.
C32_IntentPositionsValid ==
    (ui.built /\ ui.emitted # None) =>
        /\ ui.emitted.some.pod < ui.emitted.some.pod_len
        /\ message \in {"Play", "MarkPlayed", "Download"} =>
              ui.emitted.some.ep < ui.emitted.some.ep_len

\* C36: whenever the feed store is non-empty and the feed menu has a cursor,
\* the item menu's store is the sub-store of the feed under that cursor.
C36_ItemMenuFollowsFeed ==
    (/\ ui.built
     /\ ~ui.podcast_menu.panic /\ ~ui.episode_menu.panic
     /\ Len(heap[FeedRef]) > 0
     /\ ui.podcast_menu.selected > -1) =>
        LET pod == Get(heap[FeedRef],
                       ui.podcast_menu.selected + ui.podcast_menu.top_row)
        IN  /\ pod # None
            /\ ui.episode_menu.items.data = pod.episodes

\* C38: after Left, Right, Up, Down and resizes only, the cursor row of the
\* active menu, and of no other menu, shows the active-highlight palette,
\* the other menu's cursor row shows an inactive palette, and the item menu
\* is active only if it was entered by Right with both lists non-empty.
C38_OneActiveHighlight ==
    (ui.built /\ ui.keys_only /\ ~ui.podcast_menu.panic /\ ~ui.episode_menu.panic) =>
        LET act == IF ui.active_menu = "PodcastMenu"
                   THEN ui.podcast_menu ELSE ui.episode_menu
            oth == IF ui.active_menu = "PodcastMenu"
                   THEN ui.episode_menu ELSE ui.podcast_menu
        IN  /\ act.selected > -1 => act.win[act.selected] = "HighlightedActive"
            /\ oth.selected > -1 => oth.win[oth.selected] \in {"Highlighted", "Normal"}
            /\ ui.active_menu = "EpisodeMenu" => ui.entered

\* C39: lock acquisition is deadlock-free. No thread waits for a lock it
\* holds itself, the holder of a lock another thread waits for is not
\* waiting for any lock, and wherever a thread holds two locks the feed
\* store's lock was taken first and the episode store's lock inside it:
\* no thread takes the feed store's lock while it holds an episode store's.
C39_LockOrder ==
    [][LET EpRefs == Refs \ {FeedRef, CopyRef}
           elem(t) == Get(heap'[local'[t].h.data], local'[t].index)
           awaits(t) ==
               IF pc'[t] \in {"clone_episode", "update_items_elem"} /\ elem(t) # None
               THEN {elem(t).episodes}
               ELSE {}
       IN  /\ \A t \in Threads : \A r \in awaits(t) :
                /\ t \notin holders'[r]
                /\ \A u \in holders'[r] : awaits(u) = {}
           /\ \A t \in Threads : \A r \in EpRefs :
                (t \in holders'[r] /\ pc'[t] \in {"clone_episode_inner", "get_title"})
                    => t \in holders'[FeedRef]
           /\ \A t \in Threads :
                (t \notin holders[FeedRef] /\ t \in holders'[FeedRef]) =>
                    \A r \in EpRefs : t \notin holders[r]]_vars

\* C39 witness: the repaint holds the feed store's lock and waits for the
\* episode store's lock of its row, which the other thread holds through
\* the episode store's own handle.
C39_Witness ==
    /\ pc["ui"] = "update_items_elem"
    /\ "ui" \in holders[FeedRef]
    /\ Get(Data(local["ui"].h), local["ui"].index) # None
    /\ pc["worker"] = "ep_clone_episode"
    /\ "worker" \in holders[Get(Data(local["ui"].h), local["ui"].index).episodes]

====
